---------------------------- MODULE Spec2Model ----------------------------
(***************************************************************************)
(* POlyglott: the master-ledger reconciliation engine                      *)
(* (src/src/polyglott/master.py, src/src/polyglott/context.py).            *)
(*                                                                         *)
(* Python strings are modelled as sequences of code points, so that        *)
(* str.lower(), str.split(), sorting, substring tests and joins are        *)
(* computed rather than assumed.  The status and score fields, which the   *)
(* code only ever compares with literals or copies, are TLA+ strings.      *)
(***************************************************************************)
EXTENDS Integers, Sequences, FiniteSets, TLC

VARIABLES
    existing,       \* ledger handed to the last merge_master call: msgid -> MasterEntry
    po_entries,     \* the PO entries handed to it (a sequence of POEntryData)
    deduplicated,   \* the dict deduplicate_entries returned for them
    glossary,       \* the glossary handed to it (NoGlossary = None)
    context_rules,  \* the context rules handed to it (<<>> = None or [])
    master,         \* the list it returned (sequence of MasterEntry)
    runs,           \* number of merge runs made so far
    origin,         \* history: the ledger before the first run
    missed,         \* history: keys that some run's source did not contain
    reappeared,     \* history: keys that a run found stale and present again
    file,           \* the ledger path on disk: whether it exists, and its text
    old_file,       \* history: the ledger path when the command started
    loaded,         \* what load_master gave: an error, or the rows of its dict
    pc,             \* the place a command has reached
    exit_code,      \* what the command returned (NoExit: nothing yet)
    resolved,       \* the pair match_context returned
    scored,         \* the score _check_glossary_score returned
    po_file,        \* the entries of the PO file on disk
    exports,        \* history: the export_to_po calls made on it
    statuses,       \* the statuses an export or a translation selects
    suggested       \* what the translation backend gave: msgid -> outcome

\* the variables of the merge engine
merge_vars == <<existing, po_entries, deduplicated, glossary, context_rules,
                master, runs, origin, missed, reappeared>>

\* the variables of the commands, the ledger file and the single functions
io_vars == <<file, old_file, loaded, pc, exit_code, resolved, scored>>

\* the variables of the export to a PO file and of the translation
tool_vars == <<po_file, exports, statuses, suggested>>

vars == <<existing, po_entries, deduplicated, glossary, context_rules, master,
          runs, origin, missed, reappeared, file, old_file, loaded, pc,
          exit_code, resolved, scored, po_file, exports, statuses, suggested>>

---------------------------------------------------------------------------
(* Bounds of the model                                                     *)

MaxEntries == 2     \* PO entries handed to one merge run
MaxRuns == 2        \* merge runs in one behaviour of SpecRuns
MaxGroup == 3       \* PO entries handed to one call in SpecCreate and SpecOrder
MaxRows == 2        \* rows of a ledger file, and of a list handed to save_master
MaxRefs == 3        \* references of the entry handed to match_context
MaxPOEntries == 2   \* entries of the PO file of an export
MaxExports == 2     \* export_to_po calls on one PO file

---------------------------------------------------------------------------
(* Strings as sequences of code points                                     *)

EmptyStr == <<>>

\* str.lower() on ASCII text
Lower(s) == [i \in 1..Len(s) |-> IF s[i] \in 65..90 THEN s[i] + 32 ELSE s[i]]

\* Python's str < str: lexicographic on code points, a proper prefix is less
StrLess(a, b) ==
    \E i \in 1..(Len(b)) :
        /\ \A j \in 1..(i - 1) : j <= Len(a) /\ a[j] = b[j]
        /\ (i > Len(a) \/ a[i] < b[i])

\* characters str.split() and str.strip() treat as whitespace
IsSpace(c) == c \in {9, 10, 11, 12, 13, 32}

RECURSIVE SplitFrom(_, _, _)
\* str.split(): the maximal runs of non-whitespace, in order
SplitFrom(s, i, word) ==
    IF i > Len(s)
    THEN IF word = <<>> THEN <<>> ELSE <<word>>
    ELSE IF IsSpace(s[i])
         THEN (IF word = <<>> THEN <<>> ELSE <<word>>) \o SplitFrom(s, i + 1, <<>>)
         ELSE SplitFrom(s, i + 1, Append(word, s[i]))

Split(s) == SplitFrom(s, 1, <<>>)

RECURSIVE Join(_, _)
\* sep.join(parts)
Join(sep, parts) ==
    IF parts = <<>> THEN <<>>
    ELSE IF Len(parts) = 1 THEN parts[1]
    ELSE parts[1] \o sep \o Join(sep, Tail(parts))

\* the elements of a sequence, as a set
Range(q) == {q[i] : i \in 1..Len(q)}

RECURSIVE SortedStrings(_)
\* sorted(set_of_strings)
SortedStrings(S) ==
    IF S = {} THEN <<>>
    ELSE LET m == CHOOSE x \in S : \A y \in S \ {x} : StrLess(x, y)
         IN  <<m>> \o SortedStrings(S \ {m})

\* truthiness of a Python str
Truthy(s) == s # <<>>

---------------------------------------------------------------------------
(* context.py                                                              *)

\* Python's `pattern in filepath`
Contains(pattern, s) ==
    \E i \in 0..(Len(s) - Len(pattern)) :
        SubSeq(s, i + 1, i + Len(pattern)) = pattern

Colon == 58

\* ref.rsplit(':', 1)[0], for a ref that contains a colon
BeforeLastColon(ref) ==
    LET last == CHOOSE i \in 1..Len(ref) :
                    ref[i] = Colon /\ \A j \in (i + 1)..Len(ref) : ref[j] # Colon
    IN  SubSeq(ref, 1, last - 1)

\* mutant: the last rule whose pattern is in the path wins
_match_single_reference_LastWins(filepath, rules) ==
    LET matching == {i \in 1..Len(rules) : Contains(rules[i].pattern, filepath)}
    IN  IF matching = {} THEN EmptyStr
        ELSE rules[CHOOSE i \in matching : \A j \in matching : j <= i].context

RECURSIVE _match_single_reference(_, _)
_match_single_reference(filepath, rules) ==
    IF rules = <<>> THEN EmptyStr
    ELSE IF Contains(rules[1].pattern, filepath) THEN rules[1].context
    ELSE _match_single_reference(filepath, Tail(rules))

RECURSIVE SelectFrom(_, _, _)
SelectFrom(q, keep, i) ==
    IF i > Len(q) THEN <<>>
    ELSE (IF i \in keep THEN <<q[i]>> ELSE <<>>) \o SelectFrom(q, keep, i + 1)

\* [q[i] for i in range(len(q)) if i in keep]: the elements of q at the
\* positions in keep, in order
Select(q, keep) == SelectFrom(q, keep, 1)

\* the distinct elements of a sequence in order of first occurrence
\* (the key order of a dict or Counter filled from it)
FirstSeen(q) ==
    Select(q, {i \in 1..Len(q) : \A j \in 1..(i - 1) : q[j] # q[i]})

\* Counter(q)[x]
Count(q, x) == Cardinality({i \in 1..Len(q) : q[i] = x})

Ambiguous == <<97, 109, 98, 105, 103, 117, 111, 117, 115>>   \* 'ambiguous'

\* mutant: context_sources is filled in when the context is unanimous too
match_context_SourcesAlways(references, rules) ==
    LET ref_list == Split(references)
        with_colon == Select(ref_list, {i \in 1..Len(ref_list) :
                                            Colon \in Range(ref_list[i])})
        filepaths == [i \in 1..Len(with_colon) |-> BeforeLastColon(with_colon[i])]
        matched_paths == Select(filepaths, {i \in 1..Len(filepaths) :
            Truthy(_match_single_reference(filepaths[i], rules))})
        matched_contexts ==
            [i \in 1..Len(matched_paths) |->
                _match_single_reference(matched_paths[i], rules)]
        unique_contexts == FirstSeen(matched_contexts)
        map_keys == FirstSeen(matched_paths)
        max_count == CHOOSE n \in 1..Len(matched_contexts) :
                        /\ \E c \in Range(unique_contexts) : Count(matched_contexts, c) = n
                        /\ \A c \in Range(unique_contexts) : Count(matched_contexts, c) <= n
        contexts_with_max == Select(unique_contexts, {i \in 1..Len(unique_contexts) :
            Count(matched_contexts, unique_contexts[i]) = max_count})
        context_sources ==
            Join(<<59>>, [i \in 1..Len(map_keys) |->
                map_keys[i] \o <<61>> \o _match_single_reference(map_keys[i], rules)])
    IN  IF ref_list = <<>> THEN <<EmptyStr, EmptyStr>>
        ELSE IF filepaths = <<>> THEN <<EmptyStr, EmptyStr>>
        ELSE IF matched_contexts = <<>> THEN <<EmptyStr, EmptyStr>>
        ELSE IF Len(unique_contexts) = 1 THEN <<unique_contexts[1], context_sources>>
        ELSE IF Len(contexts_with_max) = 1 THEN <<contexts_with_max[1], context_sources>>
        ELSE <<Ambiguous, context_sources>>

\* mutant: context_sources has one pair for every reference that matches
match_context_PairPerReference(references, rules) ==
    LET ref_list == Split(references)
        with_colon == Select(ref_list, {i \in 1..Len(ref_list) :
                                            Colon \in Range(ref_list[i])})
        filepaths == [i \in 1..Len(with_colon) |-> BeforeLastColon(with_colon[i])]
        matched_paths == Select(filepaths, {i \in 1..Len(filepaths) :
            Truthy(_match_single_reference(filepaths[i], rules))})
        matched_contexts ==
            [i \in 1..Len(matched_paths) |->
                _match_single_reference(matched_paths[i], rules)]
        unique_contexts == FirstSeen(matched_contexts)
        map_keys == matched_paths
        max_count == CHOOSE n \in 1..Len(matched_contexts) :
                        /\ \E c \in Range(unique_contexts) : Count(matched_contexts, c) = n
                        /\ \A c \in Range(unique_contexts) : Count(matched_contexts, c) <= n
        contexts_with_max == Select(unique_contexts, {i \in 1..Len(unique_contexts) :
            Count(matched_contexts, unique_contexts[i]) = max_count})
        context_sources ==
            Join(<<59>>, [i \in 1..Len(map_keys) |->
                map_keys[i] \o <<61>> \o _match_single_reference(map_keys[i], rules)])
    IN  IF ref_list = <<>> THEN <<EmptyStr, EmptyStr>>
        ELSE IF filepaths = <<>> THEN <<EmptyStr, EmptyStr>>
        ELSE IF matched_contexts = <<>> THEN <<EmptyStr, EmptyStr>>
        ELSE IF Len(unique_contexts) = 1 THEN <<unique_contexts[1], EmptyStr>>
        ELSE IF Len(contexts_with_max) = 1 THEN <<contexts_with_max[1], context_sources>>
        ELSE <<Ambiguous, context_sources>>

match_context(references, rules) ==
    LET ref_list == Split(references)
        with_colon == Select(ref_list, {i \in 1..Len(ref_list) :
                                            Colon \in Range(ref_list[i])})
        filepaths == [i \in 1..Len(with_colon) |-> BeforeLastColon(with_colon[i])]
        matched_paths == Select(filepaths, {i \in 1..Len(filepaths) :
            Truthy(_match_single_reference(filepaths[i], rules))})
        matched_contexts ==
            [i \in 1..Len(matched_paths) |->
                _match_single_reference(matched_paths[i], rules)]
        unique_contexts == FirstSeen(matched_contexts)
        map_keys == FirstSeen(matched_paths)
        max_count == CHOOSE n \in 1..Len(matched_contexts) :
                        /\ \E c \in Range(unique_contexts) : Count(matched_contexts, c) = n
                        /\ \A c \in Range(unique_contexts) : Count(matched_contexts, c) <= n
        contexts_with_max == Select(unique_contexts, {i \in 1..Len(unique_contexts) :
            Count(matched_contexts, unique_contexts[i]) = max_count})
        context_sources ==
            Join(<<59>>, [i \in 1..Len(map_keys) |->
                map_keys[i] \o <<61>> \o _match_single_reference(map_keys[i], rules)])
    IN  IF ref_list = <<>> THEN <<EmptyStr, EmptyStr>>
        ELSE IF filepaths = <<>> THEN <<EmptyStr, EmptyStr>>
        ELSE IF matched_contexts = <<>> THEN <<EmptyStr, EmptyStr>>
        ELSE IF Len(unique_contexts) = 1 THEN <<unique_contexts[1], EmptyStr>>
        ELSE IF Len(contexts_with_max) = 1 THEN <<contexts_with_max[1], context_sources>>
        ELSE <<Ambiguous, context_sources>>

---------------------------------------------------------------------------
(* master.py                                                               *)

\* dataclass POEntryData, the fields the ledger code reads
POEntryData(msgid, msgstr, references) ==
    [msgid |-> msgid, msgstr |-> msgstr, references |-> references]

\* dataclass MasterEntry; extra_columns is an insertion-ordered dict, a
\* sequence of [name, value] pairs with distinct names
MasterEntry(msgid, msgstr, status, score, context, context_sources, candidate, extra_columns) ==
    [msgid |-> msgid, msgstr |-> msgstr, status |-> status, score |-> score,
     context |-> context, context_sources |-> context_sources,
     candidate |-> candidate, extra_columns |-> extra_columns]

\* glossary=None
NoGlossary == [present |-> FALSE, terms |-> <<>>]

\* mutant: empty translations are counted like the others
_resolve_msgstr_conflict_CountsEmpty(entries) ==
    LET all == [i \in 1..Len(entries) |-> entries[i].msgstr]
        keys == FirstSeen(all)
        best == CHOOSE i \in 1..Len(keys) :
                    /\ \A j \in 1..Len(keys) : Count(all, keys[j]) <= Count(all, keys[i])
                    /\ \A j \in 1..(i - 1) : Count(all, keys[j]) < Count(all, keys[i])
    IN  IF all = <<>> THEN EmptyStr ELSE keys[best]

\* mutant: of the translations with the greatest count the one seen last wins
_resolve_msgstr_conflict_LastTied(entries) ==
    LET kept == Select(entries, {i \in 1..Len(entries) : Truthy(entries[i].msgstr)})
        non_empty == [i \in 1..Len(kept) |-> kept[i].msgstr]
        keys == FirstSeen(non_empty)
        best == CHOOSE i \in 1..Len(keys) :
                    /\ \A j \in 1..Len(keys) :
                           Count(non_empty, keys[j]) <= Count(non_empty, keys[i])
                    /\ \A j \in (i + 1)..Len(keys) :
                           Count(non_empty, keys[j]) < Count(non_empty, keys[i])
    IN  IF non_empty = <<>> THEN EmptyStr ELSE keys[best]

\* mutant: the first non-empty translation wins, whatever the counts
_resolve_msgstr_conflict_FirstNonEmpty(entries) ==
    LET kept == Select(entries, {i \in 1..Len(entries) : Truthy(entries[i].msgstr)})
    IN  IF kept = <<>> THEN EmptyStr ELSE kept[1].msgstr

_resolve_msgstr_conflict(entries) ==
    LET kept == Select(entries, {i \in 1..Len(entries) : Truthy(entries[i].msgstr)})
        non_empty == [i \in 1..Len(kept) |-> kept[i].msgstr]
        \* Counter keeps first-seen key order; most_common(1) is the first
        \* key, in that order, with the greatest count
        keys == FirstSeen(non_empty)
        best == CHOOSE i \in 1..Len(keys) :
                    /\ \A j \in 1..Len(keys) :
                           Count(non_empty, keys[j]) <= Count(non_empty, keys[i])
                    /\ \A j \in 1..(i - 1) :
                           Count(non_empty, keys[j]) < Count(non_empty, keys[i])
    IN  IF non_empty = <<>> THEN EmptyStr ELSE keys[best]

\* mutant: the references are joined in the order in which they were seen
deduplicate_entries_RefsInOrder(entries) ==
    LET msgids == {entries[i].msgid : i \in 1..Len(entries)} \ {EmptyStr}
    IN  [m \in msgids |->
            LET group == Select(entries, {i \in 1..Len(entries) : entries[i].msgid = m})
                all_refs == Split(Join(<<32>>, [i \in 1..Len(group) |->
                                                   group[i].references]))
            IN  POEntryData(m,
                            _resolve_msgstr_conflict(group),
                            Join(<<32>>, FirstSeen(all_refs)))]

\* the msgid -> POEntryData dict deduplicate_entries returns
deduplicate_entries(entries) ==
    LET msgids == {entries[i].msgid : i \in 1..Len(entries)} \ {EmptyStr}
    IN  [m \in msgids |->
            LET group == Select(entries, {i \in 1..Len(entries) : entries[i].msgid = m})
                all_refs == UNION {Range(Split(group[i].references)) :
                                       i \in 1..Len(group)}
            IN  POEntryData(m,
                            _resolve_msgstr_conflict(group),
                            Join(<<32>>, SortedStrings(all_refs)))]

\* mutant: the translation is compared with the expected one as it is
_check_glossary_score_CaseSensitive(msgid, msgstr, gloss) ==
    IF ~gloss.present \/ ~Truthy(msgstr) THEN ""
    ELSE IF /\ Lower(msgid) \in DOMAIN gloss.terms
            /\ msgstr = gloss.terms[Lower(msgid)]
         THEN "10"
         ELSE ""

_check_glossary_score(msgid, msgstr, gloss) ==
    IF ~gloss.present \/ ~Truthy(msgstr) THEN ""
    ELSE IF /\ Lower(msgid) \in DOMAIN gloss.terms
            /\ Lower(msgstr) = Lower(gloss.terms[Lower(msgid)])
         THEN "10"
         ELSE ""

_compute_context(po_entry, rules) ==
    IF rules = <<>> THEN <<EmptyStr, EmptyStr>>
    ELSE match_context(po_entry.references, rules)

\* mutant: a conflict whose source agrees with it again is accepted again
merged_status_ConflictResolves(ex, current_po) ==
    CASE ex.status \in {"accepted", "conflict"} ->
             IF ex.msgstr = current_po.msgstr THEN "accepted" ELSE "conflict"
      [] ex.status = "empty" ->
             IF Truthy(current_po.msgstr) THEN "review" ELSE "empty"
      [] ex.status = "stale" -> "review"
      [] OTHER -> ex.status

\* mutant: a rejected row whose source translation differs goes to review
merged_status_RejectedReopens(ex, current_po) ==
    CASE ex.status = "accepted" ->
             IF ex.msgstr = current_po.msgstr THEN "accepted" ELSE "conflict"
      [] ex.status = "rejected" ->
             IF ex.msgstr = current_po.msgstr THEN "rejected" ELSE "review"
      [] ex.status = "empty" ->
             IF Truthy(current_po.msgstr) THEN "review" ELSE "empty"
      [] ex.status = "stale" -> "review"
      [] OTHER -> ex.status

\* mutant: a stale row stays stale when its msgid is in the source again
merged_status_StaleStays(ex, current_po) ==
    CASE ex.status = "accepted" ->
             IF ex.msgstr = current_po.msgstr THEN "accepted" ELSE "conflict"
      [] ex.status = "empty" ->
             IF Truthy(current_po.msgstr) THEN "review" ELSE "empty"
      [] OTHER -> ex.status

\* mutant: a review row whose translation is the one of the source is
\* accepted
merged_status_ReviewAccepts(ex, current_po) ==
    CASE ex.status = "accepted" ->
             IF ex.msgstr = current_po.msgstr THEN "accepted" ELSE "conflict"
      [] ex.status = "review" ->
             IF ex.msgstr = current_po.msgstr THEN "accepted" ELSE "review"
      [] ex.status = "empty" ->
             IF Truthy(current_po.msgstr) THEN "review" ELSE "empty"
      [] ex.status = "stale" -> "review"
      [] OTHER -> ex.status

\* mutant: a status that is none of the seven is replaced by the status of
\* a new row
merged_status_Normalises(ex, current_po) ==
    CASE ex.status = "accepted" ->
             IF ex.msgstr = current_po.msgstr THEN "accepted" ELSE "conflict"
      [] ex.status = "empty" ->
             IF Truthy(current_po.msgstr) THEN "review" ELSE "empty"
      [] ex.status = "stale" -> "review"
      [] ex.status \in {"rejected", "review", "machine", "conflict"} -> ex.status
      [] OTHER -> IF Truthy(current_po.msgstr) THEN "review" ELSE "empty"

\* _apply_merge_rules, the value of `status` at the return
merged_status(ex, current_po) ==
    CASE ex.status = "accepted" ->
             IF ex.msgstr = current_po.msgstr THEN "accepted" ELSE "conflict"
      [] ex.status = "empty" ->
             IF Truthy(current_po.msgstr) THEN "review" ELSE "empty"
      [] ex.status = "stale" -> "review"
      [] OTHER -> ex.status

\* mutant: a stale row that reappears keeps its old translation
merged_msgstr_StaleKept(ex, current_po) ==
    CASE ex.status \in {"review", "machine"} -> current_po.msgstr
      [] ex.status = "empty" /\ Truthy(current_po.msgstr) -> current_po.msgstr
      [] OTHER -> ex.msgstr

\* mutant: an accepted row takes the source translation
merged_msgstr_AcceptedOverwritten(ex, current_po) ==
    CASE ex.status \in {"accepted", "review", "machine", "stale"} -> current_po.msgstr
      [] ex.status = "empty" /\ Truthy(current_po.msgstr) -> current_po.msgstr
      [] OTHER -> ex.msgstr

\* _apply_merge_rules, the value of `msgstr` at the return
merged_msgstr(ex, current_po) ==
    CASE ex.status \in {"review", "machine", "stale"} -> current_po.msgstr
      [] ex.status = "empty" /\ Truthy(current_po.msgstr) -> current_po.msgstr
      [] OTHER -> ex.msgstr

\* mutant: the score is dropped when an accepted row becomes a conflict
merged_score_ConflictCleared(ex, current_po, gloss) ==
    IF ex.status = "empty" /\ Truthy(current_po.msgstr)
    THEN _check_glossary_score(ex.msgid, current_po.msgstr, gloss)
    ELSE IF ex.status = "accepted" /\ ex.msgstr # current_po.msgstr THEN ""
    ELSE ex.score

\* mutant: an empty row that gets a translation is not scored
merged_score_EmptyKept(ex, current_po, gloss) ==
    ex.score

\* mutant: a stale row that reappears is scored like a new translation
merged_score_StaleRescored(ex, current_po, gloss) ==
    IF (ex.status = "empty" /\ Truthy(current_po.msgstr)) \/ ex.status = "stale"
    THEN _check_glossary_score(ex.msgid, current_po.msgstr, gloss)
    ELSE ex.score

\* mutant: a review or machine row whose translation changes is scored again
merged_score_ReviewRescored(ex, current_po, gloss) ==
    IF \/ ex.status = "empty" /\ Truthy(current_po.msgstr)
       \/ ex.status \in {"review", "machine"} /\ ex.msgstr # current_po.msgstr
    THEN _check_glossary_score(ex.msgid, current_po.msgstr, gloss)
    ELSE ex.score

\* _apply_merge_rules, the value of `score` at the return
merged_score(ex, current_po, gloss) ==
    IF ex.status = "empty" /\ Truthy(current_po.msgstr)
    THEN _check_glossary_score(ex.msgid, current_po.msgstr, gloss)
    ELSE ex.score

\* mutant: a row that has a context keeps it
_apply_merge_rules_KeepsContext(ex, current_po, gloss, rules) ==
    LET ctx == IF Truthy(ex.context) THEN <<ex.context, ex.context_sources>>
               ELSE _compute_context(current_po, rules)
    IN  MasterEntry(ex.msgid,
                    merged_msgstr(ex, current_po),
                    merged_status(ex, current_po),
                    merged_score(ex, current_po, gloss),
                    ctx[1], ctx[2], ex.candidate, ex.extra_columns)

\* mutant: a row that changes its status loses its candidate and its extra
\* columns
_apply_merge_rules_DropsCandidate(ex, current_po, gloss, rules) ==
    LET ctx == _compute_context(current_po, rules)
        changed == merged_status(ex, current_po) # ex.status
    IN  MasterEntry(ex.msgid,
                    merged_msgstr(ex, current_po),
                    merged_status(ex, current_po),
                    merged_score(ex, current_po, gloss),
                    ctx[1], ctx[2],
                    IF changed THEN EmptyStr ELSE ex.candidate,
                    IF changed THEN <<>> ELSE ex.extra_columns)

_apply_merge_rules(ex, current_po, gloss, rules) ==
    LET ctx == _compute_context(current_po, rules)
    IN  MasterEntry(ex.msgid,
                    merged_msgstr(ex, current_po),
                    merged_status(ex, current_po),
                    merged_score(ex, current_po, gloss),
                    ctx[1], ctx[2], ex.candidate, ex.extra_columns)

\* mutant: a row that goes stale loses its translation
_handle_missing_entry_ClearsMsgstr(ex) ==
    MasterEntry(ex.msgid, EmptyStr, "stale", ex.score, ex.context,
                ex.context_sources, ex.candidate, ex.extra_columns)

\* mutant: the context of a row that goes stale is computed again, from no
\* references
_handle_missing_entry_ClearsContext(ex) ==
    MasterEntry(ex.msgid, ex.msgstr, "stale", ex.score, EmptyStr, EmptyStr,
                ex.candidate, ex.extra_columns)

_handle_missing_entry(ex) ==
    MasterEntry(ex.msgid, ex.msgstr, "stale", ex.score, ex.context,
                ex.context_sources, ex.candidate, ex.extra_columns)

\* mutant: a new row is never scored
_create_new_entry_Unscored(current_po, gloss, rules) ==
    LET ctx == _compute_context(current_po, rules)
        status == IF Truthy(current_po.msgstr) THEN "review" ELSE "empty"
    IN  MasterEntry(current_po.msgid, current_po.msgstr, status, "",
                    ctx[1], ctx[2], EmptyStr, <<>>)

_create_new_entry(current_po, gloss, rules) ==
    LET ctx == _compute_context(current_po, rules)
        status == IF Truthy(current_po.msgstr) THEN "review" ELSE "empty"
        score == IF Truthy(current_po.msgstr)
                 THEN _check_glossary_score(current_po.msgid, current_po.msgstr, gloss)
                 ELSE ""
    IN  MasterEntry(current_po.msgid, current_po.msgstr, status, score,
                    ctx[1], ctx[2], EmptyStr, <<>>)

RECURSIVE InsertByMsgid(_, _)
\* the place a stable sort gives row r in the sorted list q: behind every
\* row whose msgid is not greater
InsertByMsgid(q, r) ==
    IF q = <<>> THEN <<r>>
    ELSE IF StrLess(r.msgid, q[1].msgid) THEN <<r>> \o q
    ELSE <<q[1]>> \o InsertByMsgid(Tail(q), r)

\* mutant: the rows stay in the order in which they were appended
SortByMsgid_Unsorted(q) == q

RECURSIVE SortByMsgid(_)
\* result.sort(key=lambda e: e.msgid)
SortByMsgid(q) ==
    IF q = <<>> THEN <<>>
    ELSE InsertByMsgid(SortByMsgid(SubSeq(q, 1, Len(q) - 1)), q[Len(q)])

\* mutant: every row of a new ledger is a row for review
create_master_AllReview(entries, gloss, rules) ==
    LET deduped == deduplicate_entries(entries)
        named == Select(entries, {i \in 1..Len(entries) : Truthy(entries[i].msgid)})
        items == FirstSeen([i \in 1..Len(named) |-> named[i].msgid])
        Row(m) ==
            LET po_entry == deduped[m]
                ctx == _compute_context(po_entry, rules)
            IN  MasterEntry(m, po_entry.msgstr, "review",
                            _check_glossary_score(m, po_entry.msgstr, gloss),
                            ctx[1], ctx[2], EmptyStr, <<>>)
    IN  SortByMsgid([i \in 1..Len(items) |-> Row(items[i])])

\* create_master; the dict of deduplicated entries is walked in insertion
\* order, the order in which the msgids first occur in the input
create_master(entries, gloss, rules) ==
    LET deduped == deduplicate_entries(entries)
        named == Select(entries, {i \in 1..Len(entries) : Truthy(entries[i].msgid)})
        items == FirstSeen([i \in 1..Len(named) |-> named[i].msgid])
        Row(m) ==
            LET po_entry == deduped[m]
                status == IF Truthy(po_entry.msgstr) THEN "review" ELSE "empty"
                score == IF status = "review"
                         THEN _check_glossary_score(m, po_entry.msgstr, gloss)
                         ELSE ""
                ctx == _compute_context(po_entry, rules)
            IN  MasterEntry(m, po_entry.msgstr, status, score, ctx[1], ctx[2],
                            EmptyStr, <<>>)
    IN  SortByMsgid([i \in 1..Len(items) |-> Row(items[i])])

\* the orders in which a Python set of strings may be iterated
Orders(S) == {q \in [1..Cardinality(S) -> S] : Range(q) = S}

\* mutant: rows whose msgid is not in the source are dropped
merge_master_DropsMissing(ex, entries, gloss, rules, order) ==
    LET current == deduplicate_entries(entries)
        kept == Select(order, {i \in 1..Len(order) : order[i] \in DOMAIN current})
        Row(m) == IF m \in DOMAIN ex
                  THEN _apply_merge_rules(ex[m], current[m], gloss, rules)
                  ELSE _create_new_entry(current[m], gloss, rules)
    IN  SortByMsgid([i \in 1..Len(kept) |-> Row(kept[i])])

\* merge_master; `order` is the iteration order of the set all_msgids
merge_master(ex, entries, gloss, rules, order) ==
    LET current == deduplicate_entries(entries)
        Row(m) == IF m \in DOMAIN ex /\ m \in DOMAIN current
                  THEN _apply_merge_rules(ex[m], current[m], gloss, rules)
                  ELSE IF m \in DOMAIN ex
                  THEN _handle_missing_entry(ex[m])
                  ELSE _create_new_entry(current[m], gloss, rules)
    IN  SortByMsgid([i \in 1..Len(order) |-> Row(order[i])])

\* set(existing.keys()) | set(current.keys())
all_msgids(ex, entries) == DOMAIN ex \cup DOMAIN deduplicate_entries(entries)

\* the msgid-keyed dict of a list of rows (as load_master builds it: a later
\* row replaces an earlier one with the same msgid)
AsLedger(rows) ==
    [m \in {rows[i].msgid : i \in 1..Len(rows)} |->
        rows[CHOOSE i \in 1..Len(rows) :
                 rows[i].msgid = m /\ \A j \in (i + 1)..Len(rows) : rows[j].msgid # m]]

---------------------------------------------------------------------------
(* master.py, the ledger file.  The file is its text as the utf-8-sig      *)
(* codec gives it to the program; every field of a row is a string of      *)
(* code points here, the status, the score and the column names too.       *)

Quote == 34
Comma == 44
CR == 13
LF == 10

\* 'msgid', 'msgstr', 'status', 'score', 'context', 'context_sources',
\* 'candidate'
POLYGLOTT_COLUMNS ==
    <<<<109, 115, 103, 105, 100>>,
      <<109, 115, 103, 115, 116, 114>>,
      <<115, 116, 97, 116, 117, 115>>,
      <<115, 99, 111, 114, 101>>,
      <<99, 111, 110, 116, 101, 120, 116>>,
      <<99, 111, 110, 116, 101, 120, 116, 95, 115, 111, 117, 114, 99, 101, 115>>,
      <<99, 97, 110, 100, 105, 100, 97, 116, 101>>>>

\* a field as csv.writer writes it under QUOTE_ALL: in quotes, every quote
\* of the value doubled
Quoted(v) ==
    <<Quote>> \o Join(<<>>, [i \in 1..Len(v) |->
                  IF v[i] = Quote THEN <<Quote, Quote>> ELSE <<v[i]>>]) \o <<Quote>>

\* csv.writer.writerow under QUOTE_ALL with the line terminator '\r\n'; the
\* file is opened with newline='', which writes the text as it is
writerow(fields) ==
    Join(<<Comma>>, [i \in 1..Len(fields) |-> Quoted(fields[i])]) \o <<CR, LF>>

\* extra_columns.get(col_name, '')
Get(extra_columns, col_name) ==
    IF \E i \in 1..Len(extra_columns) : extra_columns[i].name = col_name
    THEN extra_columns[CHOOSE i \in 1..Len(extra_columns) :
                           extra_columns[i].name = col_name].value
    ELSE EmptyStr

\* mutant: the user columns in the reverse of the order of first appearance
user_columns_Reversed(entries) ==
    LET seen == FirstSeen(Join(<<>>, [e \in 1..Len(entries) |->
                    [i \in 1..Len(entries[e].extra_columns) |->
                        entries[e].extra_columns[i].name]]))
    IN  [k \in 1..Len(seen) |-> seen[Len(seen) + 1 - k]]

\* save_master, the list user_columns
user_columns(entries) ==
    FirstSeen(Join(<<>>, [e \in 1..Len(entries) |->
        [i \in 1..Len(entries[e].extra_columns) |-> entries[e].extra_columns[i].name]]))

\* save_master, the records it hands to the writer: writeheader() and one
\* writerow(row) per entry
save_records(entries) ==
    LET users == user_columns(entries)
        Row(entry) ==
            <<entry.msgid, entry.msgstr, entry.status, entry.score, entry.context,
              entry.context_sources, entry.candidate>>
            \o [k \in 1..Len(users) |-> Get(entry.extra_columns, users[k])]
    IN  <<POLYGLOTT_COLUMNS \o users>> \o [e \in 1..Len(entries) |-> Row(entries[e])]

\* save_master, the text of the file once k records are written
written(entries, k) ==
    Join(<<>>, [r \in 1..k |-> writerow(save_records(entries)[r])])

\* save_master, the text it writes when nothing stops it
save_master(entries) == written(entries, Len(entries) + 1)

RECURSIVE translated(_, _, _)
\* the characters lo..hi of a text after universal newline translation:
\* the '\n' of a '\r\n' is dropped and every '\r' becomes '\n'
translated(text, lo, hi) ==
    IF lo > hi THEN <<>>
    ELSE IF lo = hi
    THEN IF text[lo] = LF /\ lo > 1 /\ text[lo - 1] = CR THEN <<>>
         ELSE IF text[lo] = CR THEN <<LF>>
         ELSE <<text[lo]>>
    ELSE translated(text, lo, (lo + hi) \div 2)
         \o translated(text, (lo + hi) \div 2 + 1, hi)

\* what open(path, 'r') without newline='' hands to the reader: '\r\n' and
\* '\r' have become '\n'
universal_newlines(text) == translated(text, 1, Len(text))

\* the elements of a set of numbers in ascending order
Ascending(S) ==
    [k \in 1..Cardinality(S) |->
        CHOOSE b \in S : Cardinality({c \in S : c < b}) = k - 1]

\* the value csv.reader gives for the characters of one field: a field that
\* starts with a quote runs to the first quote that is not doubled, its
\* doubled quotes are single ones, and what follows the closing quote is
\* added as it is
field_value(raw) ==
    IF raw = <<>> \/ raw[1] # Quote THEN raw
    ELSE LET Quotes(j) == Cardinality({k \in 2..j : raw[k] = Quote})
             closing == {j \in 2..Len(raw) :
                            /\ raw[j] = Quote
                            /\ Quotes(j - 1) % 2 = 0
                            /\ (j = Len(raw) \/ raw[j + 1] # Quote)}
             close == IF closing = {} THEN Len(raw) + 1
                      ELSE CHOOSE j \in closing : \A k \in closing : j <= k
         IN  Select(raw, {j \in 2..(close - 1) :
                              raw[j] # Quote \/ Quotes(j) % 2 = 1})
             \o SubSeq(raw, close + 1, Len(raw))

\* csv.reader, excel dialect, on a text in which quotes occur only in quoted
\* fields (every text a csv.writer writes): a comma or a newline ('\r\n',
\* '\r' or '\n') after an even number of quotes ends a field or a record;
\* an empty line is the record <<>>
csv_reader(s) ==
    LET n == Len(s)
        Outside(i) == Cardinality({j \in 1..(i - 1) : s[j] = Quote}) % 2 = 0
        \* the last character of every line end
        ends == Ascending({i \in 1..n :
                    /\ s[i] \in {CR, LF}
                    /\ ~(s[i] = CR /\ i < n /\ s[i + 1] = LF)
                    /\ Outside(i)})
        open_end == Len(ends) = 0 \/ ends[Len(ends)] < n
        lines == Len(ends) + (IF n > 0 /\ open_end THEN 1 ELSE 0)
        From(k) == IF k = 1 THEN 1 ELSE ends[k - 1] + 1
        To(k) == IF k > Len(ends) THEN n
                 ELSE IF s[ends[k]] = LF /\ ends[k] > From(k) /\ s[ends[k] - 1] = CR
                 THEN ends[k] - 2
                 ELSE ends[k] - 1
        Record(lo, hi) ==
            IF lo > hi THEN <<>>
            ELSE LET commas == Ascending({c \in lo..hi : s[c] = Comma /\ Outside(c)})
                 IN  [m \in 1..(Len(commas) + 1) |->
                        field_value(SubSeq(s,
                            IF m = 1 THEN lo ELSE commas[m - 1] + 1,
                            IF m > Len(commas) THEN hi ELSE commas[m] - 1))]
    IN  [k \in 1..lines |-> Record(From(k), To(k))]

\* mutant: a path that does not exist is an error
load_master_MissingIsError(f) == [error |-> TRUE, entries |-> <<>>]

\* load_master: error is the ValueError it raises, entries the values of
\* the dict it returns, in the order of the dict.  Every row of the files
\* of the model has as many fields as the header.
load_master(f) ==
    LET records == csv_reader(universal_newlines(f.text))
        fieldnames == IF records = <<>> THEN <<>> ELSE records[1]
        \* csv.DictReader leaves out the empty records
        rows == Select(records, {i \in 2..Len(records) : records[i] # <<>>})
        \* dict(zip(fieldnames, row))[name]
        Value(row, name) ==
            row[CHOOSE k \in 1..Len(fieldnames) :
                    /\ fieldnames[k] = name
                    /\ \A j \in (k + 1)..Len(fieldnames) : fieldnames[j] # name]
        \* row.get(name, '')
        Field(row, name) ==
            IF name \in Range(fieldnames) THEN Value(row, name) ELSE EmptyStr
        names == FirstSeen(fieldnames)
        user == Select(names, {k \in 1..Len(names) :
                                   names[k] \notin Range(POLYGLOTT_COLUMNS)})
        Entry(row) ==
            MasterEntry(Value(row, POLYGLOTT_COLUMNS[1]),
                        Field(row, POLYGLOTT_COLUMNS[2]),
                        Field(row, POLYGLOTT_COLUMNS[3]),
                        Field(row, POLYGLOTT_COLUMNS[4]),
                        Field(row, POLYGLOTT_COLUMNS[5]),
                        Field(row, POLYGLOTT_COLUMNS[6]),
                        Field(row, POLYGLOTT_COLUMNS[7]),
                        [k \in 1..Len(user) |->
                            [name |-> user[k], value |-> Value(row, user[k])]])
        msgids == FirstSeen([i \in 1..Len(rows) |-> Value(rows[i], POLYGLOTT_COLUMNS[1])])
        \* entries[msgid] = ...: a later row takes the place of an earlier
        \* one with its msgid
        Last(msgid) ==
            rows[CHOOSE i \in 1..Len(rows) :
                     /\ Value(rows[i], POLYGLOTT_COLUMNS[1]) = msgid
                     /\ \A j \in (i + 1)..Len(rows) :
                            Value(rows[j], POLYGLOTT_COLUMNS[1]) # msgid]
    IN  IF ~f.exists THEN [error |-> FALSE, entries |-> <<>>]
        ELSE IF POLYGLOTT_COLUMNS[1] \notin Range(fieldnames)
        THEN [error |-> TRUE, entries |-> <<>>]
        ELSE [error |-> FALSE,
              entries |-> [i \in 1..Len(msgids) |-> Entry(Last(msgids[i]))]]

---------------------------------------------------------------------------
(* The values the model draws its inputs from.  'B' is the msgid whose row *)
(* takes every shape; 'a' is a second msgid that comes and goes beside it. *)

Subject == <<66>>                               \* 'B'
Other == <<97>>                                 \* 'a'
MsgIds == {Subject, Other}
Translations == {<<>>, <<120>>, <<89>>}         \* '', 'x', 'Y'
Statuses == {"empty", "machine", "review", "accepted", "rejected", "stale",
             "conflict"}
\* "" is the status load_master gives a row of a file without status column
AnyStatus == Statuses \cup {""}
Scores == {"", "10", "7"}

\* glossary terms {'b': 'X'}
Glossaries == {NoGlossary, [present |-> TRUE, terms |-> (<<98>> :> <<88>>)]}

\* rules [{pattern: 'u', context: 'U'}, {pattern: 'v', context: 'V'}]
RuleLists == {<<>>, <<[pattern |-> <<117>>, context |-> <<85>>],
                      [pattern |-> <<118>>, context |-> <<86>>]>>}

\* a row nobody has annotated, and a row with what a human or the translate
\* step may have left in it and a context left by an earlier import
Blank == [context |-> EmptyStr, candidate |-> EmptyStr, extra_columns |-> <<>>]
Annotated == [context |-> <<86>>, candidate |-> <<99>>,
              extra_columns |-> <<[name |-> "note", value |-> <<110>>]>>]

\* the rows a ledger may hold for the subject msgid: every status with
\* every translation and score, and every status with annotations
SubjectRows ==
    {MasterEntry(Subject, t, st, sc, Blank.context, EmptyStr, Blank.candidate,
                 Blank.extra_columns) :
        t \in Translations, st \in AnyStatus, sc \in Scores}
    \cup
    {MasterEntry(Subject, <<120>>, st, "7", Annotated.context, EmptyStr,
                 Annotated.candidate, Annotated.extra_columns) :
        st \in AnyStatus}

\* the row an import without glossary and rules leaves for the other msgid
OtherRow == _create_new_entry(POEntryData(Other, <<120>>, EmptyStr), NoGlossary, <<>>)

\* ledgers: every row is keyed by its msgid
Ledgers ==
    {<<>>, (Other :> OtherRow)}
    \cup {(Subject :> r) : r \in SubjectRows}
    \cup {(Subject :> r) @@ (Other :> OtherRow) : r \in SubjectRows}

\* the header entry of a PO file (msgid '')
Header == POEntryData(EmptyStr, <<120>>, EmptyStr)

\* the entries handed to one merge: the subject msgid with every
\* translation at 'u:1' and once more at 'v:2', the other msgid at 'u:1'
POEntries ==
    {POEntryData(Subject, t, <<117, 58, 49>>) : t \in Translations}
    \cup {POEntryData(Subject, <<120>>, <<118, 58, 50>>),
          POEntryData(Other, <<120>>, <<117, 58, 49>>)}

POInputs == UNION {[1..n -> POEntries] : n \in 0..MaxEntries}

\* no file at the ledger path
NoFile == [exists |-> FALSE, text |-> <<>>]

\* load_master has not been called
NotLoaded == [error |-> FALSE, entries |-> <<>>]

\* the command has returned nothing
NoExit == -1

\* no PO file is written and nothing is translated
NoTools ==
    /\ po_file = <<>>
    /\ exports = <<>>
    /\ statuses = {}
    /\ suggested = <<>>

\* no command is running and no ledger file is looked at
Idle ==
    /\ file = NoFile
    /\ old_file = NoFile
    /\ loaded = NotLoaded
    /\ pc = "idle"
    /\ exit_code = NoExit
    /\ resolved = <<EmptyStr, EmptyStr>>
    /\ scored = ""
    /\ NoTools

\* the merge engine is not looked at
NoMerge ==
    /\ existing = <<>>
    /\ po_entries = <<>>
    /\ deduplicated = <<>>
    /\ glossary = NoGlossary
    /\ context_rules = <<>>
    /\ runs = 0
    /\ origin = <<>>
    /\ missed = {}
    /\ reappeared = {}

---------------------------------------------------------------------------
(* Spec: one application of merge_master to arbitrary inputs               *)

Init ==
    /\ Idle
    /\ existing \in Ledgers
    /\ po_entries \in POInputs
    /\ deduplicated = <<>>
    /\ glossary \in Glossaries
    /\ context_rules \in RuleLists
    /\ master = <<>>
    /\ runs = 0
    /\ origin = existing
    /\ missed = {}
    /\ reappeared = {}

\* the history variables after a run over existing' and deduplicated'
History ==
    LET current == DOMAIN deduplicated'
    IN  /\ missed' = missed \cup (DOMAIN existing' \ current)
        /\ reappeared' = reappeared \cup
               {m \in DOMAIN existing' \cap current : existing'[m].status = "stale"}

Merge ==
    /\ runs = 0
    /\ \E order \in Orders(all_msgids(existing, po_entries)) :
           master' = merge_master(existing, po_entries, glossary, context_rules, order)
    /\ deduplicated' = deduplicate_entries(po_entries)
    /\ runs' = 1
    /\ UNCHANGED <<existing, po_entries, glossary, context_rules, origin>>
    /\ History
    /\ UNCHANGED io_vars
    /\ UNCHANGED tool_vars

\* cmd_import when there is no ledger yet: create_master
Create ==
    /\ runs = 0
    /\ existing = <<>>
    /\ master' = create_master(po_entries, glossary, context_rules)
    /\ deduplicated' = deduplicate_entries(po_entries)
    /\ runs' = 1
    /\ UNCHANGED <<existing, po_entries, glossary, context_rules, origin>>
    /\ History
    /\ UNCHANGED io_vars
    /\ UNCHANGED tool_vars

Next == Merge \/ Create

Spec == Init /\ [][Next]_vars

---------------------------------------------------------------------------
(* SpecRuns: a sequence of imports into one ledger file, with no edit of   *)
(* the ledger between them.  The glossary and the rules are the project's  *)
(* and stay; every run finds new PO content.                               *)

\* the ledger rows of the subject msgid at the start of the sequence: every
\* status with two translations and scores, and every status with
\* annotations
RunRows ==
    {MasterEntry(Subject, t, st, sc, EmptyStr, EmptyStr, EmptyStr, <<>>) :
        t \in {<<120>>, <<89>>}, st \in AnyStatus, sc \in {"", "7"}}
    \cup
    {MasterEntry(Subject, <<120>>, st, "7", Annotated.context, EmptyStr,
                 Annotated.candidate, Annotated.extra_columns) :
        st \in AnyStatus}

RunLedgers ==
    {(Subject :> r) : r \in RunRows}
    \cup {(Subject :> r) @@ (Other :> OtherRow) : r \in RunRows}

\* PO content of a run: a PO file with or without its header entry and with
\* at most two entries, each the subject or the other msgid with 'x' at 'u:1'
RunEntries ==
    {POEntryData(m, <<120>>, <<117, 58, 49>>) : m \in MsgIds}

RunInputs ==
    {h \o b : h \in {<<>>, <<Header>>},
              b \in {<<>>} \cup [1..1 -> RunEntries] \cup [1..2 -> RunEntries]}

\* the rows of a ledger as the list the last save wrote
RowsOf(ledger) == SortByMsgid(
    LET order == CHOOSE q \in Orders(DOMAIN ledger) : TRUE
    IN  [i \in 1..Len(order) |-> ledger[order[i]]])

InitRuns ==
    /\ Idle
    /\ existing \in RunLedgers
    /\ master = RowsOf(existing)
    /\ po_entries = <<>>
    /\ deduplicated = <<>>
    /\ glossary \in Glossaries \ {NoGlossary}
    /\ context_rules \in RuleLists \ {<<>>}
    /\ runs = 0
    /\ origin = existing
    /\ missed = {}
    /\ reappeared = {}

\* cmd_import on an existing ledger file: load, merge, save
Import ==
    /\ runs < MaxRuns
    /\ existing' = AsLedger(master)
    /\ po_entries' \in RunInputs
    /\ \E order \in Orders(all_msgids(existing', po_entries')) :
           master' = merge_master(existing', po_entries', glossary, context_rules, order)
    /\ deduplicated' = deduplicate_entries(po_entries')
    /\ runs' = runs + 1
    /\ UNCHANGED <<glossary, context_rules, origin>>
    /\ History
    /\ UNCHANGED io_vars
    /\ UNCHANGED tool_vars

NextRuns == Import

SpecRuns == InitRuns /\ [][NextRuns]_vars

---------------------------------------------------------------------------
(* SpecCreate: the first import, with no ledger yet: create_master on PO   *)
(* entries that repeat msgids with different translations and references.  *)

\* the entries handed to create_master: the subject msgid with every
\* translation at 'u:1', with 'x' at no reference, at 'v:2  u:1' (two
\* spaces) and at 'U:3', the other msgid, and the header entry
CreateEntries ==
    {POEntryData(Subject, t, <<117, 58, 49>>) : t \in Translations}
    \cup {POEntryData(Subject, <<120>>, r) :
              r \in {EmptyStr, <<118, 58, 50, 32, 32, 117, 58, 49>>, <<85, 58, 51>>}}
    \cup {POEntryData(Other, <<120>>, <<117, 58, 49>>), Header}

CreateInputs == UNION {[1..n -> CreateEntries] : n \in 0..MaxGroup}

InitCreate ==
    /\ Idle
    /\ existing = <<>>
    /\ po_entries \in CreateInputs
    /\ deduplicated = <<>>
    /\ glossary \in Glossaries
    /\ context_rules \in RuleLists
    /\ master = <<>>
    /\ runs = 0
    /\ origin = existing
    /\ missed = {}
    /\ reappeared = {}

NextCreate == Create

SpecCreate == InitCreate /\ [][NextCreate]_vars

---------------------------------------------------------------------------
(* po_writer.py and parser.py.  A PO file is the list of the entries       *)
(* polib.pofile gives for it, the obsolete ones among them, and po.save    *)
(* writes the list as it is.                                               *)

\* polib.POEntry, the fields the code reads and writes; occurrences is a
\* list of (path, line) pairs, flags a list of flag names
POEntry(msgid, msgstr, flags, obsolete, occurrences) ==
    [msgid |-> msgid, msgstr |-> msgstr, flags |-> flags, obsolete |-> obsolete,
     occurrences |-> occurrences]

\* list.remove(x), for a list that has x: the first x is taken out
Remove(q, x) ==
    LET first == CHOOSE i \in 1..Len(q) : q[i] = x /\ \A j \in 1..(i - 1) : q[j] # x
    IN  SubSeq(q, 1, first - 1) \o SubSeq(q, first + 1, Len(q))

\* mutant: the status of the ledger row is not looked at
export_action_AnyStatus(master_lookup, po_entry, export_statuses) ==
    IF po_entry.msgid \notin DOMAIN master_lookup THEN "skip"
    ELSE IF ~Truthy(master_lookup[po_entry.msgid].msgstr) THEN "skip"
    ELSE IF ~Truthy(po_entry.msgstr) THEN "write"
    ELSE IF po_entry.msgstr # master_lookup[po_entry.msgid].msgstr THEN "overwrite"
    ELSE "skip"

\* mutant: an entry that has the translation already is written again
export_action_WritesMatches(master_lookup, po_entry, export_statuses) ==
    IF po_entry.msgid \notin DOMAIN master_lookup THEN "skip"
    ELSE IF master_lookup[po_entry.msgid].status \notin export_statuses THEN "skip"
    ELSE IF ~Truthy(master_lookup[po_entry.msgid].msgstr) THEN "skip"
    ELSE IF ~Truthy(po_entry.msgstr) THEN "write"
    ELSE "overwrite"

\* mutant: a translation the PO entry has is never replaced
export_action_NeverOverwrites(master_lookup, po_entry, export_statuses) ==
    IF po_entry.msgid \notin DOMAIN master_lookup THEN "skip"
    ELSE IF master_lookup[po_entry.msgid].status \notin export_statuses THEN "skip"
    ELSE IF ~Truthy(master_lookup[po_entry.msgid].msgstr) THEN "skip"
    ELSE IF ~Truthy(po_entry.msgstr) THEN "write"
    ELSE "skip"

\* export_to_po, the action of the loop for one PO entry
export_action(master_lookup, po_entry, export_statuses) ==
    IF po_entry.msgid \notin DOMAIN master_lookup THEN "skip"
    ELSE IF master_lookup[po_entry.msgid].status \notin export_statuses THEN "skip"
    ELSE IF ~Truthy(master_lookup[po_entry.msgid].msgstr) THEN "skip"
    ELSE IF ~Truthy(po_entry.msgstr) THEN "write"
    ELSE IF po_entry.msgstr # master_lookup[po_entry.msgid].msgstr THEN "overwrite"
    ELSE "skip"

\* mutant: the fuzzy flag is taken off for every status
exported_flags_AlwaysCleared(status, flags) ==
    IF "fuzzy" \in Range(flags) THEN Remove(flags, "fuzzy") ELSE flags

\* export_to_po, the flags of an entry that is written
exported_flags(status, flags) ==
    IF status = "accepted"
    THEN IF "fuzzy" \in Range(flags) THEN Remove(flags, "fuzzy") ELSE flags
    ELSE IF status = "machine"
    THEN IF "fuzzy" \notin Range(flags) THEN Append(flags, "fuzzy") ELSE flags
    ELSE flags

\* export_to_po: the entries of the POFile after the loop and the counts
\* of the ExportResult
export_to_po(master_entries, po, export_statuses) ==
    LET master_lookup == AsLedger(master_entries)
        Action(i) == export_action(master_lookup, po[i], export_statuses)
        Entry(i) ==
            IF Action(i) = "skip" THEN po[i]
            ELSE [po[i] EXCEPT
                     !.msgstr = master_lookup[po[i].msgid].msgstr,
                     !.flags = exported_flags(master_lookup[po[i].msgid].status,
                                              po[i].flags)]
    IN  [po |-> [i \in 1..Len(po) |-> Entry(i)],
         writes |-> Cardinality({i \in 1..Len(po) : Action(i) = "write"}),
         overwrites |-> Cardinality({i \in 1..Len(po) : Action(i) = "overwrite"}),
         skips |-> Cardinality({i \in 1..Len(po) : Action(i) = "skip"})]

\* POParser._process_entry for an entry that is not plural: references is
\* " ".join(f"{ref[0]}:{ref[1]}" for ref in entry.occurrences)
_process_entry(entry) ==
    POEntryData(entry.msgid, entry.msgstr,
                Join(<<32>>, [i \in 1..Len(entry.occurrences) |->
                    entry.occurrences[i][1] \o <<Colon>> \o entry.occurrences[i][2]]))

\* POParser.parse: the entries that are not obsolete, then the obsolete ones
parse(po) ==
    LET live == Select(po, {i \in 1..Len(po) : ~po[i].obsolete})
        obsolete == Select(po, {i \in 1..Len(po) : po[i].obsolete})
    IN  [i \in 1..Len(live) |-> _process_entry(live[i])]
        \o [i \in 1..Len(obsolete) |-> _process_entry(obsolete[i])]

---------------------------------------------------------------------------
(* SpecCsv: load_master and save_master on ledger files.  A file is the    *)
(* text of a table: the header names, then one record per row.             *)

Note == <<110, 111, 116, 101>>                  \* 'note'
QName == <<113, 34>>                            \* 'q"'

\* the headers of the files: the reserved columns; the same and a user
\* column; 'msgid', 'note', 'msgstr'; 'q"', 'msgid', 'status', 'note'; and
\* 'msgstr', 'note', which has no msgid
Layouts ==
    {POLYGLOTT_COLUMNS,
     POLYGLOTT_COLUMNS \o <<Note>>,
     <<POLYGLOTT_COLUMNS[1], Note, POLYGLOTT_COLUMNS[2]>>,
     <<QName, POLYGLOTT_COLUMNS[1], POLYGLOTT_COLUMNS[3], Note>>,
     <<POLYGLOTT_COLUMNS[2], Note>>}

\* '', 'x', ',', '"', '\n', '\r\n', '\r', 'x",\ny'
CellValues ==
    {EmptyStr, <<120>>, <<Comma>>, <<Quote>>, <<LF>>, <<CR, LF>>, <<CR>>,
     <<120, Quote, Comma, LF, 121>>}

\* the msgid of row r: 'B', 'C', ...
RowMsgid(r) == <<65 + r>>

\* what row r has in column k unless it is the cell under test: 'a1', 'b1', ...
Cell(r, k) == <<96 + k, 48 + r>>

\* n rows under a header, with value v in the cell probe = <<row, column>>
TableRows(layout, n, probe, v) ==
    [r \in 1..n |-> [k \in 1..Len(layout) |->
        IF layout[k] = POLYGLOTT_COLUMNS[1] THEN RowMsgid(r)
        ELSE IF <<r, k>> = probe THEN v
        ELSE Cell(r, k)]]

\* a record as an editor writes it: a field is quoted only if it has a
\* comma, a quote or a newline in it, and the line ends with '\n'
editor_row(fields) ==
    Join(<<Comma>>, [i \in 1..Len(fields) |->
        IF Range(fields[i]) \cap {Comma, Quote, CR, LF} # {}
        THEN Quoted(fields[i]) ELSE fields[i]]) \o <<LF>>

\* the text of a table, as csv.writer or as an editor writes it
TableText(layout, rows, style) ==
    IF style = "writer"
    THEN writerow(layout) \o Join(<<>>, [r \in 1..Len(rows) |-> writerow(rows[r])])
    ELSE editor_row(layout) \o Join(<<>>, [r \in 1..Len(rows) |-> editor_row(rows[r])])

\* the cells of n rows that are not the msgid
Probes(layout, n) ==
    {p \in (1..n) \X (1..Len(layout)) : layout[p[2]] # POLYGLOTT_COLUMNS[1]}

\* the ledger path: nothing, an empty file, a header without rows, or up to
\* MaxRows rows with every value once in every cell
CsvFiles ==
    {NoFile, [exists |-> TRUE, text |-> <<>>]}
    \cup {[exists |-> TRUE, text |-> TableText(layout, <<>>, style)] :
              layout \in Layouts, style \in {"writer", "editor"}}
    \cup UNION {
            {[exists |-> TRUE,
              text |-> TableText(x[1], TableRows(x[1], x[2], probe, v), style)] :
                probe \in Probes(x[1], x[2]), v \in CellValues,
                style \in {"writer", "editor"}} :
            x \in Layouts \X (1..MaxRows)}

\* the user columns a row handed to save_master may have
ExtraChoices ==
    {<<>>,
     <<[name |-> Note, value |-> <<110>>]>>,
     <<[name |-> QName, value |-> <<120, Quote, Comma, LF, 121>>],
       [name |-> Note, value |-> <<CR>>]>>,
     <<[name |-> Note, value |-> EmptyStr], [name |-> QName, value |-> <<113>>]>>}

\* the lists handed to save_master: up to MaxRows rows, each with its own
\* user columns
SaveLists ==
    UNION {
        {[r \in 1..n |->
            MasterEntry(RowMsgid(r), Cell(r, 2), Cell(r, 3), Cell(r, 4), Cell(r, 5),
                        Cell(r, 6), Cell(r, 7), extras[r])] :
            extras \in [1..n -> ExtraChoices]} :
        n \in 0..MaxRows}

InitCsv ==
    /\ NoMerge
    /\ file \in CsvFiles
    /\ old_file = file
    /\ master \in IF file = NoFile THEN SaveLists ELSE {<<>>}
    /\ loaded = NotLoaded
    /\ pc = "start"
    /\ exit_code = NoExit
    /\ resolved = <<EmptyStr, EmptyStr>>
    /\ scored = ""
    /\ NoTools

\* load_master(path), and list(....values()) of what it returns
LoadMaster ==
    /\ pc = "start"
    /\ loaded' = load_master(file)
    /\ master' = loaded'.entries
    /\ pc' = "loaded"
    /\ UNCHANGED <<existing, po_entries, deduplicated, glossary, context_rules,
                   runs, origin, missed, reappeared>>
    /\ UNCHANGED <<file, old_file, exit_code, resolved, scored>>
    /\ UNCHANGED tool_vars

\* save_master(entries, path) with nothing that stops it, for a list that
\* was made in memory or for the rows that were loaded
SaveMaster ==
    /\ pc \in {"start", "loaded"}
    /\ ~loaded.error
    /\ file' = [exists |-> TRUE, text |-> save_master(master)]
    /\ pc' = IF pc = "start" THEN "saved" ELSE "resaved"
    /\ UNCHANGED merge_vars
    /\ UNCHANGED <<old_file, loaded, exit_code, resolved, scored>>
    /\ UNCHANGED tool_vars

NextCsv == LoadMaster \/ SaveMaster

SpecCsv == InitCsv /\ [][NextCsv]_vars

---------------------------------------------------------------------------
(* SpecCommand: cmd_import, one step of it at a time, on a ledger path at  *)
(* which there is nothing, a ledger an earlier import saved, or a file     *)
(* that is no ledger.  The merge engine has the status, the score and the  *)
(* name of a user column as TLA+ strings, the file has them as characters. *)

Words == Statuses \cup Scores \cup {"", "note"}

\* the characters of a word
Text(word) ==
    CASE word = "" -> EmptyStr
      [] word = "10" -> <<49, 48>>
      [] word = "7" -> <<55>>
      [] word = "note" -> Note
      [] word = "empty" -> <<101, 109, 112, 116, 121>>
      [] word = "machine" -> <<109, 97, 99, 104, 105, 110, 101>>
      [] word = "review" -> <<114, 101, 118, 105, 101, 119>>
      [] word = "accepted" -> <<97, 99, 99, 101, 112, 116, 101, 100>>
      [] word = "rejected" -> <<114, 101, 106, 101, 99, 116, 101, 100>>
      [] word = "stale" -> <<115, 116, 97, 108, 101>>
      [] word = "conflict" -> <<99, 111, 110, 102, 108, 105, 99, 116>>

\* a row of the merge engine as save_master gets it
Written(entry) ==
    MasterEntry(entry.msgid, entry.msgstr, Text(entry.status), Text(entry.score),
                entry.context, entry.context_sources, entry.candidate,
                [i \in 1..Len(entry.extra_columns) |->
                    [name |-> Text(entry.extra_columns[i].name),
                     value |-> entry.extra_columns[i].value]])

\* a row load_master gives as the merge engine gets it
Read(entry) ==
    LET Word(text) == CHOOSE word \in Words : Text(word) = text
    IN  MasterEntry(entry.msgid, entry.msgstr, Word(entry.status), Word(entry.score),
                    entry.context, entry.context_sources, entry.candidate,
                    [i \in 1..Len(entry.extra_columns) |->
                        [name |-> Word(entry.extra_columns[i].name),
                         value |-> entry.extra_columns[i].value]])

\* the text save_master writes for the rows of the merge engine, and what
\* is in the file once k records of it are written
SavedText(rows) == save_master([i \in 1..Len(rows) |-> Written(rows[i])])
WrittenText(rows, k) == written([i \in 1..Len(rows) |-> Written(rows[i])], k)

\* the ledgers of earlier imports: one without rows, one with the subject
\* msgid accepted, one with it stale and annotated and the other msgid
CommandLedgers ==
    {<<>>,
     <<MasterEntry(Subject, <<120>>, "accepted", "7", EmptyStr, EmptyStr, EmptyStr, <<>>)>>,
     <<MasterEntry(Subject, <<120>>, "stale", "", Annotated.context, EmptyStr,
                   Annotated.candidate, Annotated.extra_columns),
       OtherRow>>}

\* what may be at the ledger path; the last is a table without msgid
CommandFiles ==
    {NoFile}
    \cup {[exists |-> TRUE, text |-> SavedText(rows)] : rows \in CommandLedgers}
    \cup {[exists |-> TRUE,
           text |-> TableText(<<POLYGLOTT_COLUMNS[2], Note>>, <<>>, "editor")]}

\* what the PO files may hold
CommandInputs ==
    {<<>>,
     <<POEntryData(Subject, <<89>>, <<117, 58, 49>>)>>,
     <<Header, POEntryData(Other, <<120>>, <<118, 58, 50>>),
       POEntryData(Subject, EmptyStr, <<117, 58, 49>>)>>}

InitCommand ==
    /\ NoMerge
    /\ file \in CommandFiles
    /\ old_file = file
    /\ master = <<>>
    /\ loaded = NotLoaded
    /\ pc = "infer_language"
    /\ exit_code = NoExit
    /\ resolved = <<EmptyStr, EmptyStr>>
    /\ scored = ""
    /\ NoTools

\* mutant: a failure is not reported
Return1_AsSuccess ==
    /\ exit_code' = 0
    /\ pc' = "aborted"

\* print the error; return 1
Return1 ==
    /\ exit_code' = 1
    /\ pc' = "aborted"

\* the steps before save_master
BeforeSave ==
    {"infer_language", "context_rules", "po_files", "parse", "glossary", "load", "merge"}

\* a step before save_master raises: its own handler or the handlers at
\* the end of cmd_import return 1
Fails ==
    /\ pc \in BeforeSave
    /\ Return1
    /\ UNCHANGED merge_vars
    /\ UNCHANGED <<file, old_file, loaded, resolved, scored>>
    /\ UNCHANGED tool_vars

\* lang = infer_language(args.master, args.lang)
InferLanguage ==
    /\ pc = "infer_language"
    /\ pc' = "context_rules"
    /\ UNCHANGED merge_vars
    /\ UNCHANGED <<file, old_file, loaded, exit_code, resolved, scored>>
    /\ UNCHANGED tool_vars

\* context_rules = load_context_rules_from_args(args)
LoadContextRules ==
    /\ pc = "context_rules"
    /\ context_rules' \in RuleLists
    /\ pc' = "po_files"
    /\ UNCHANGED <<existing, po_entries, deduplicated, glossary, master, runs,
                   origin, missed, reappeared>>
    /\ UNCHANGED <<file, old_file, loaded, exit_code, resolved, scored>>
    /\ UNCHANGED tool_vars

\* files = resolve_po_files(...), and every one of them exists
ResolvePOFiles ==
    /\ pc = "po_files"
    /\ pc' = "parse"
    /\ UNCHANGED merge_vars
    /\ UNCHANGED <<file, old_file, loaded, exit_code, resolved, scored>>
    /\ UNCHANGED tool_vars

\* entries = MultiPOParser(files).parse()
ParsePOFiles ==
    /\ pc = "parse"
    /\ po_entries' \in CommandInputs
    /\ pc' = "glossary"
    /\ UNCHANGED <<existing, deduplicated, glossary, context_rules, master, runs,
                   origin, missed, reappeared>>
    /\ UNCHANGED <<file, old_file, loaded, exit_code, resolved, scored>>
    /\ UNCHANGED tool_vars

\* glossary = None, or Glossary(args.glossary)
LoadGlossary ==
    /\ pc = "glossary"
    /\ glossary' \in Glossaries
    /\ pc' = "load"
    /\ UNCHANGED <<existing, po_entries, deduplicated, context_rules, master, runs,
                   origin, missed, reappeared>>
    /\ UNCHANGED <<file, old_file, loaded, exit_code, resolved, scored>>
    /\ UNCHANGED tool_vars

\* if Path(args.master).exists(): existing = load_master(args.master); its
\* ValueError goes to the handler at the end of cmd_import
LoadLedger ==
    /\ pc = "load"
    /\ loaded' = IF file.exists THEN load_master(file) ELSE loaded
    /\ IF loaded'.error
       THEN Return1 /\ UNCHANGED existing
       ELSE /\ existing' = AsLedger([i \in 1..Len(loaded'.entries) |->
                                        Read(loaded'.entries[i])])
            /\ pc' = "merge"
            /\ UNCHANGED exit_code
    /\ UNCHANGED <<po_entries, deduplicated, glossary, context_rules, master, runs,
                   origin, missed, reappeared>>
    /\ UNCHANGED <<file, old_file, resolved, scored>>
    /\ UNCHANGED tool_vars

\* result = merge_master(existing, entries, glossary, context_rules), or
\* create_master(entries, glossary, context_rules)
MergeOrCreate ==
    /\ pc = "merge"
    /\ IF file.exists
       THEN \E order \in Orders(all_msgids(existing, po_entries)) :
                master' = merge_master(existing, po_entries, glossary, context_rules, order)
       ELSE master' = create_master(po_entries, glossary, context_rules)
    /\ deduplicated' = deduplicate_entries(po_entries)
    /\ pc' = "save"
    /\ UNCHANGED <<existing, po_entries, glossary, context_rules, runs, origin,
                   missed, reappeared>>
    /\ UNCHANGED <<file, old_file, loaded, exit_code, resolved, scored>>
    /\ UNCHANGED tool_vars

\* save_master: mkdir, the list of user columns, and open(master_path, 'w',
\* ...), which leaves a file without contents at the path
SaveOpen ==
    /\ pc = "save"
    /\ file' = [exists |-> TRUE, text |-> <<>>]
    /\ pc' = "writing"
    /\ UNCHANGED merge_vars
    /\ UNCHANGED <<old_file, loaded, exit_code, resolved, scored>>
    /\ UNCHANGED tool_vars

\* save_master: writer.writeheader(), or the next writer.writerow(row)
WriteRecord ==
    /\ pc = "writing"
    /\ \E k \in 0..Len(master) :
           /\ file.text = WrittenText(master, k)
           /\ file' = [exists |-> TRUE, text |-> WrittenText(master, k + 1)]
    /\ UNCHANGED merge_vars
    /\ UNCHANGED <<old_file, loaded, pc, exit_code, resolved, scored>>
    /\ UNCHANGED tool_vars

\* save_master raises before or after it has opened the file, or between
\* two records: what is written stays, the handler at the end of cmd_import
\* returns 1
SaveFails ==
    /\ pc \in {"save", "writing"}
    /\ exit_code' = 1
    /\ pc' = "save_failed"
    /\ UNCHANGED merge_vars
    /\ UNCHANGED <<file, old_file, loaded, resolved, scored>>
    /\ UNCHANGED tool_vars

\* the file is closed; the statistics; return 0
Return0 ==
    /\ pc = "writing"
    /\ file.text = SavedText(master)
    /\ exit_code' = 0
    /\ pc' = "returned"
    /\ UNCHANGED merge_vars
    /\ UNCHANGED <<file, old_file, loaded, resolved, scored>>
    /\ UNCHANGED tool_vars

NextCommand ==
    \/ InferLanguage
    \/ LoadContextRules
    \/ ResolvePOFiles
    \/ ParsePOFiles
    \/ LoadGlossary
    \/ LoadLedger
    \/ MergeOrCreate
    \/ Fails
    \/ SaveOpen
    \/ WriteRecord
    \/ SaveFails
    \/ Return0

SpecCommand == InitCommand /\ [][NextCommand]_vars

---------------------------------------------------------------------------
(* SpecContext: match_context on the references of one entry               *)

\* 'u:1', 'u:2', 'v:2', 'uv:1', 'U:3', 'x:u:1' and 'u', which has no line
\* number
References ==
    {<<117, 58, 49>>, <<117, 58, 50>>, <<118, 58, 50>>, <<117, 118, 58, 49>>,
     <<85, 58, 51>>, <<120, 58, 117, 58, 49>>, <<117>>}

\* the reference strings: up to MaxRefs references with a space between
\* them, a string of whitespace, and ' u:1\t\nv:2 '
ReferenceStrings ==
    {Join(<<32>>, refs) : refs \in UNION {[1..n -> References] : n \in 0..MaxRefs}}
    \cup {<<32, 9>>, <<32, 117, 58, 49, 9, 10, 118, 58, 50, 32>>}

\* the rule lists: none; 'u' before 'v' and 'v' before 'u'; 'u' and 'v'
\* with one label; a rule for 'u' in the shadow of one with the empty
\* label; and the empty pattern after 'v'
ContextRuleLists ==
    {<<>>,
     <<[pattern |-> <<117>>, context |-> <<85>>],
       [pattern |-> <<118>>, context |-> <<86>>]>>,
     <<[pattern |-> <<118>>, context |-> <<86>>],
       [pattern |-> <<117>>, context |-> <<85>>]>>,
     <<[pattern |-> <<117>>, context |-> <<85>>],
       [pattern |-> <<118>>, context |-> <<85>>]>>,
     <<[pattern |-> <<117>>, context |-> EmptyStr],
       [pattern |-> <<117>>, context |-> <<85>>],
       [pattern |-> <<118>>, context |-> <<86>>]>>,
     <<[pattern |-> <<118>>, context |-> <<86>>],
       [pattern |-> EmptyStr, context |-> <<87>>]>>}

InitContext ==
    /\ existing = <<>>
    /\ po_entries \in {<<POEntryData(Subject, <<120>>, refs)>> : refs \in ReferenceStrings}
    /\ deduplicated = <<>>
    /\ glossary = NoGlossary
    /\ context_rules \in ContextRuleLists
    /\ master = <<>>
    /\ runs = 0
    /\ origin = <<>>
    /\ missed = {}
    /\ reappeared = {}
    /\ file = NoFile
    /\ old_file = NoFile
    /\ loaded = NotLoaded
    /\ pc = "references"
    /\ exit_code = NoExit
    /\ resolved = <<EmptyStr, EmptyStr>>
    /\ scored = ""
    /\ NoTools

\* context, context_sources = match_context(po_entry.references, rules)
MatchContext ==
    /\ pc = "references"
    /\ resolved' = match_context(po_entries[1].references, context_rules)
    /\ pc' = "resolved"
    /\ UNCHANGED merge_vars
    /\ UNCHANGED <<file, old_file, loaded, exit_code, scored>>
    /\ UNCHANGED tool_vars

NextContext == MatchContext

SpecContext == InitContext /\ [][NextContext]_vars

---------------------------------------------------------------------------
(* SpecScore: _check_glossary_score on one msgid and translation           *)

\* the msgids 'B', 'b' and 'a'
ScoredMsgIds == {<<66>>, <<98>>, <<97>>}

\* the translations '', 'x', 'X', 'Y' and 'x '
ScoredTranslations == {EmptyStr, <<120>>, <<88>>, <<89>>, <<120, 32>>}

\* no glossary, and glossaries with the terms b: X, b: x, B: X (a key that
\* is not in lower case) and b: Y, a: x
ScoredGlossaries ==
    {NoGlossary,
     [present |-> TRUE, terms |-> (<<98>> :> <<88>>)],
     [present |-> TRUE, terms |-> (<<98>> :> <<120>>)],
     [present |-> TRUE, terms |-> (<<66>> :> <<88>>)],
     [present |-> TRUE, terms |-> (<<98>> :> <<89>>) @@ (<<97>> :> <<120>>)]}

InitScore ==
    /\ existing = <<>>
    /\ po_entries \in {<<POEntryData(m, t, EmptyStr)>> :
                           m \in ScoredMsgIds, t \in ScoredTranslations}
    /\ deduplicated = <<>>
    /\ glossary \in ScoredGlossaries
    /\ context_rules = <<>>
    /\ master = <<>>
    /\ runs = 0
    /\ origin = <<>>
    /\ missed = {}
    /\ reappeared = {}
    /\ file = NoFile
    /\ old_file = NoFile
    /\ loaded = NotLoaded
    /\ pc = "entry"
    /\ exit_code = NoExit
    /\ resolved = <<EmptyStr, EmptyStr>>
    /\ scored = ""
    /\ NoTools

\* score = _check_glossary_score(po_entry.msgid, po_entry.msgstr, glossary)
CheckGlossaryScore ==
    /\ pc = "entry"
    /\ scored' = _check_glossary_score(po_entries[1].msgid, po_entries[1].msgstr, glossary)
    /\ pc' = "scored"
    /\ UNCHANGED merge_vars
    /\ UNCHANGED <<file, old_file, loaded, exit_code, resolved>>
    /\ UNCHANGED tool_vars

NextScore == CheckGlossaryScore

SpecScore == InitScore /\ [][NextScore]_vars

---------------------------------------------------------------------------
(* SpecExport: export_to_po calls on one PO file with one ledger and one   *)
(* status set, and after them the import of the PO file into the ledger.   *)

\* the occurrence ('u', '1')
AtU == <<<<<<117>>, <<49>>>>>>

\* the entries a PO file may have: the subject msgid without translation,
\* with the ledger's 'x' and with 'Y'; with 'Y' and fuzzy, and with a flag
\* before fuzzy; obsolete with 'Y'; and the other msgid
POFileEntries ==
    {POEntry(Subject, t, <<>>, FALSE, AtU) : t \in {EmptyStr, <<120>>, <<89>>}}
    \cup {POEntry(Subject, <<89>>, <<"fuzzy">>, FALSE, AtU),
          POEntry(Subject, <<89>>, <<"python-format", "fuzzy">>, FALSE, AtU),
          POEntry(Subject, <<89>>, <<>>, TRUE, <<>>),
          POEntry(Other, <<120>>, <<>>, FALSE, AtU)}

POFiles == UNION {[1..n -> POFileEntries] : n \in 0..MaxPOEntries}

\* the ledgers: the subject msgid in every status with the translation
\* 'x', accepted and machine without translation, and two with the other
\* msgid after it
ExportLedgers ==
    {<<MasterEntry(Subject, <<120>>, st, "7", EmptyStr, EmptyStr, EmptyStr, <<>>)>> :
        st \in Statuses}
    \cup {<<MasterEntry(Subject, EmptyStr, st, "7", EmptyStr, EmptyStr, EmptyStr, <<>>)>> :
        st \in {"accepted", "machine"}}
    \cup {<<MasterEntry(Subject, <<120>>, "accepted", "7", EmptyStr, EmptyStr,
                        EmptyStr, <<>>),
            MasterEntry(Other, <<120>>, "accepted", "", EmptyStr, EmptyStr,
                        EmptyStr, <<>>)>>,
          <<MasterEntry(Subject, <<120>>, "machine", "", EmptyStr, EmptyStr,
                        EmptyStr, <<>>),
            MasterEntry(Other, <<89>>, "review", "", EmptyStr, EmptyStr,
                        EmptyStr, <<>>)>>}

\* the status sets: the default of cmd_export, and --status machine
\* --status review --status rejected
StatusSets == {{"accepted"}, {"machine", "review", "rejected"}}

InitExport ==
    /\ NoMerge
    /\ master \in ExportLedgers
    /\ file = NoFile
    /\ old_file = NoFile
    /\ loaded = NotLoaded
    /\ pc = "export"
    /\ exit_code = NoExit
    /\ resolved = <<EmptyStr, EmptyStr>>
    /\ scored = ""
    /\ po_file \in POFiles
    /\ exports = <<>>
    /\ statuses \in StatusSets
    /\ suggested = <<>>

\* result = export_to_po(master_entries, po_file, statuses, dry_run=...);
\* po.save(po_path) unless dry_run
ExportToPO ==
    /\ pc = "export"
    /\ Len(exports) < MaxExports
    /\ \E dry_run \in BOOLEAN :
           LET done == export_to_po(master, po_file, statuses)
           IN  /\ exports' = Append(exports,
                      [read |-> po_file, dry_run |-> dry_run, po |-> done.po,
                       writes |-> done.writes, overwrites |-> done.overwrites,
                       skips |-> done.skips])
               /\ po_file' = IF dry_run THEN po_file ELSE done.po
    /\ UNCHANGED merge_vars
    /\ UNCHANGED io_vars
    /\ UNCHANGED <<statuses, suggested>>

\* the import of the PO file into the ledger: entries = parser.parse(),
\* existing = load_master(...), result = merge_master(existing, entries,
\* glossary, context_rules)
ImportPO ==
    /\ pc = "export"
    /\ exports # <<>>
    /\ po_entries' = parse(po_file)
    /\ existing' = AsLedger(master)
    /\ glossary' \in Glossaries
    /\ \E order \in Orders(all_msgids(existing', po_entries')) :
           master' = merge_master(existing', po_entries', glossary', context_rules, order)
    /\ deduplicated' = deduplicate_entries(po_entries')
    /\ pc' = "imported"
    /\ UNCHANGED <<context_rules, runs, origin, missed, reappeared>>
    /\ UNCHANGED <<file, old_file, loaded, exit_code, resolved, scored>>
    /\ UNCHANGED tool_vars

NextExport == ExportToPO \/ ImportPO

SpecExport == InitExport /\ [][NextExport]_vars

---------------------------------------------------------------------------
(* SpecTranslate: cmd_translate on a ledger file.  The translation backend *)
(* is outside the program: what translate_entry gives for a msgid is drawn *)
(* at the start, an error or a text.                                       *)

Suggestion == <<84>>                            \* 'T'

\* TranslationError, the text of the backend, or the msgid as it is (a
\* pass-through, or a backend that gives the text back)
Outcomes(msgid) ==
    {[error |-> TRUE, msgstr |-> EmptyStr],
     [error |-> FALSE, msgstr |-> Suggestion],
     [error |-> FALSE, msgstr |-> msgid]}

\* the ledgers of earlier imports and reviews: no rows, the subject msgid
\* empty, for review and scored, accepted with a candidate, machine with a
\* candidate, and empty beside the other msgid
TranslateLedgers ==
    {<<>>,
     <<MasterEntry(Subject, EmptyStr, "empty", "", EmptyStr, EmptyStr, EmptyStr, <<>>)>>,
     <<MasterEntry(Subject, <<120>>, "review", "10", EmptyStr, EmptyStr, EmptyStr, <<>>)>>,
     <<MasterEntry(Subject, <<120>>, "accepted", "7", Annotated.context, EmptyStr,
                   Annotated.candidate, Annotated.extra_columns)>>,
     <<MasterEntry(Subject, <<89>>, "machine", "", EmptyStr, EmptyStr,
                   Annotated.candidate, <<>>)>>,
     <<MasterEntry(Subject, EmptyStr, "empty", "", EmptyStr, EmptyStr, EmptyStr, <<>>),
       OtherRow>>}

\* what may be at the ledger path; the last is a table without msgid
TranslateFiles ==
    {NoFile}
    \cup {[exists |-> TRUE, text |-> SavedText(rows)] : rows \in TranslateLedgers}
    \cup {[exists |-> TRUE,
           text |-> TableText(<<POLYGLOTT_COLUMNS[2], Note>>, <<>>, "editor")]}

\* --status; {'empty'} without it
TranslateStatuses == {{"empty"}, {"empty", "review", "machine"}}

\* the body of the loop over entries_to_translate for one entry: msgstr,
\* status and score are assigned unless translate_entry raises
\* TranslationError
translate_row(entry, outcome) ==
    IF outcome.error THEN entry
    ELSE MasterEntry(entry.msgid, outcome.msgstr, "machine", "", entry.context,
                     entry.context_sources, entry.candidate, entry.extra_columns)

InitTranslate ==
    /\ NoMerge
    /\ master = <<>>
    /\ file \in TranslateFiles
    /\ old_file = file
    /\ loaded = NotLoaded
    /\ pc = "translate"
    /\ exit_code = NoExit
    /\ resolved = <<EmptyStr, EmptyStr>>
    /\ scored = ""
    /\ po_file = <<>>
    /\ exports = <<>>
    /\ statuses \in TranslateStatuses
    /\ suggested \in {f \in [MsgIds -> UNION {Outcomes(m) : m \in MsgIds}] :
                          \A m \in MsgIds : f[m] \in Outcomes(m)}

\* infer_language raises ValueError: return 1
LanguageUnknown ==
    /\ pc = "translate"
    /\ exit_code' = 1
    /\ pc' = "refused"
    /\ UNCHANGED merge_vars
    /\ UNCHANGED <<file, old_file, loaded, resolved, scored>>
    /\ UNCHANGED tool_vars

\* the ledger is looked for and loaded and the entries to translate are
\* selected: return 1 without a ledger file or without msgid column,
\* return 0 when no entry has one of the statuses
SelectEntries ==
    /\ pc = "translate"
    /\ loaded' = IF file.exists THEN load_master(file) ELSE loaded
    /\ IF ~file.exists \/ loaded'.error
       THEN /\ exit_code' = 1
            /\ pc' = "refused"
            /\ UNCHANGED master
       ELSE /\ master' = [i \in 1..Len(loaded'.entries) |-> Read(loaded'.entries[i])]
            /\ IF \E i \in 1..Len(master') : master'[i].status \in statuses
               THEN pc' = "selected" /\ UNCHANGED exit_code
               ELSE pc' = "nothing" /\ exit_code' = 0
    /\ UNCHANGED <<existing, po_entries, deduplicated, glossary, context_rules, runs,
                   origin, missed, reappeared>>
    /\ UNCHANGED <<file, old_file, resolved, scored>>
    /\ UNCHANGED tool_vars

\* no --auth-key and no DEEPL_AUTH_KEY, or DeepLBackend(auth_key) raises
\* TranslationError: return 1
BackendMissing ==
    /\ pc = "selected"
    /\ exit_code' = 1
    /\ pc' = "refused"
    /\ UNCHANGED merge_vars
    /\ UNCHANGED <<file, old_file, loaded, resolved, scored>>
    /\ UNCHANGED tool_vars

\* --dry-run: _dry_run_translate prints the estimate and returns 0
DryRunTranslate ==
    /\ pc = "selected"
    /\ exit_code' = 0
    /\ pc' = "estimated"
    /\ UNCHANGED merge_vars
    /\ UNCHANGED <<file, old_file, loaded, resolved, scored>>
    /\ UNCHANGED tool_vars

\* the loop over entries_to_translate, save_master(master_entries,
\* args.master) in the finally clause, return 0
TranslateEntries ==
    /\ pc = "selected"
    /\ master' = [i \in 1..Len(master) |->
                     IF master[i].status \in statuses
                     THEN translate_row(master[i], suggested[master[i].msgid])
                     ELSE master[i]]
    /\ file' = [exists |-> TRUE, text |-> SavedText(master')]
    /\ exit_code' = 0
    /\ pc' = "translated"
    /\ UNCHANGED <<existing, po_entries, deduplicated, glossary, context_rules, runs,
                   origin, missed, reappeared>>
    /\ UNCHANGED <<old_file, loaded, resolved, scored>>
    /\ UNCHANGED tool_vars

NextTranslate ==
    \/ LanguageUnknown
    \/ SelectEntries
    \/ BackendMissing
    \/ DryRunTranslate
    \/ TranslateEntries

SpecTranslate == InitTranslate /\ [][NextTranslate]_vars

---------------------------------------------------------------------------
(* Properties                                                              *)

\* a merge run has been made
Done == runs > 0

\* the deduplicated current source of the last run
Current == deduplicated

\* the msgids of a list of rows
Keys(q) == {q[i].msgid : i \in 1..Len(q)}

\* the row of the last result for msgid m
Out(m) == master[CHOOSE i \in 1..Len(master) : master[i].msgid = m]

\* msgid m took the update path of the last run
InBoth(m) == Done /\ m \in DOMAIN existing /\ m \in DOMAIN Current /\ m \in Keys(master)

\* C1: merging the result of a merge against the same source, glossary and
\* rules again returns that result, row for row and field for field,
\* whatever order the keys are processed in
C1_MergeIdempotent ==
    Done =>
        \A order \in Orders(all_msgids(AsLedger(master), po_entries)) :
            merge_master(AsLedger(master), po_entries, glossary, context_rules,
                         order) = master

\* C1 witness: the first merge turned an accepted row into a conflict and
\* created a row for a new msgid
C1_Witness ==
    /\ Done
    /\ Subject \in DOMAIN existing /\ existing[Subject].status = "accepted"
    /\ Subject \in Keys(master) /\ Out(Subject).status = "conflict"
    /\ Other \notin DOMAIN existing /\ Other \in Keys(master)

\* C3: an accepted row whose msgid is in the source stays accepted when the
\* source translation equals its own and becomes conflict otherwise; its
\* translation and score stay the existing ones either way
C3_AcceptedRule ==
    \A m \in MsgIds :
        InBoth(m) /\ existing[m].status = "accepted" =>
            /\ Out(m).status =
                   IF Current[m].msgstr = existing[m].msgstr
                   THEN "accepted" ELSE "conflict"
            /\ Out(m).msgstr = existing[m].msgstr
            /\ Out(m).score = existing[m].score

\* C3 witness: accepted 'x' with score "10", the source says 'Y': conflict,
\* 'x', "10"
C3_Witness ==
    /\ InBoth(Subject)
    /\ existing[Subject].status = "accepted"
    /\ existing[Subject].msgstr = <<120>> /\ existing[Subject].score = "10"
    /\ Current[Subject].msgstr = <<89>>
    /\ Out(Subject).status = "conflict" /\ Out(Subject).msgstr = <<120>>

\* C5: a conflict row whose msgid is in the source stays conflict with its
\* own translation and score, also when the source agrees with it again
C5_ConflictRule ==
    \A m \in MsgIds :
        InBoth(m) /\ existing[m].status = "conflict" =>
            /\ Out(m).status = "conflict"
            /\ Out(m).msgstr = existing[m].msgstr
            /\ Out(m).score = existing[m].score

\* C5 witness: a conflict row and a source translation equal to the row's
C5_Witness ==
    /\ InBoth(Subject)
    /\ existing[Subject].status = "conflict"
    /\ Truthy(existing[Subject].msgstr)
    /\ Current[Subject].msgstr = existing[Subject].msgstr
    /\ Out(Subject).status = "conflict"

\* C7: the score of an accepted, rejected or conflict row is the same after
\* the merge, with the msgid in the source or not, with a glossary or not
C7_HumanStatusScoreKept ==
    \A m \in MsgIds :
        /\ Done /\ m \in DOMAIN existing
        /\ existing[m].status \in {"accepted", "rejected", "conflict"}
        => m \in Keys(master) /\ Out(m).score = existing[m].score

\* C7 witness: an unscored accepted row whose source translation the
\* glossary would score "10"
C7_Witness ==
    /\ InBoth(Subject)
    /\ existing[Subject].status = "accepted" /\ existing[Subject].score = ""
    /\ _check_glossary_score(Subject, Current[Subject].msgstr, glossary) = "10"
    /\ Out(Subject).score = ""

\* C8: a score that is neither empty nor "10" is the same after the merge,
\* for every status of its row and on every path
C8_HumanScoreSurvives ==
    \A m \in MsgIds :
        /\ Done /\ m \in DOMAIN existing
        /\ existing[m].score \notin {"", "10"}
        => m \in Keys(master) /\ Out(m).score = existing[m].score

\* C9: an empty row whose msgid is in the source with a translation becomes
\* review with that translation and the scorer's score for it; with an empty
\* source translation its status, translation and score stay
C9_EmptyRule ==
    \A m \in MsgIds :
        InBoth(m) /\ existing[m].status = "empty" =>
            IF Truthy(Current[m].msgstr)
            THEN /\ Out(m).status = "review"
                 /\ Out(m).msgstr = Current[m].msgstr
                 /\ Out(m).score =
                        _check_glossary_score(m, Current[m].msgstr, glossary)
            ELSE /\ Out(m).status = "empty"
                 /\ Out(m).msgstr = existing[m].msgstr
                 /\ Out(m).score = existing[m].score

\* C9 witness: an empty, unscored row, the source brings the glossary's
\* translation: review with score "10"
C9_Witness ==
    /\ InBoth(Subject)
    /\ existing[Subject].status = "empty" /\ existing[Subject].score = ""
    /\ existing[Subject].msgstr = <<>>
    /\ Current[Subject].msgstr = <<120>>
    /\ Out(Subject).status = "review" /\ Out(Subject).score = "10"

\* C10: a stale row whose msgid is in the source again becomes review with
\* the source translation, empty or not, and keeps its score: the scorer is
\* not asked
C10_StaleReappears ==
    \A m \in MsgIds :
        InBoth(m) /\ existing[m].status = "stale" =>
            /\ Out(m).status = "review"
            /\ Out(m).msgstr = Current[m].msgstr
            /\ Out(m).score = existing[m].score

\* C10 witness: a stale row with score "7" comes back with a translation the
\* glossary would score "10"
C10_Witness ==
    /\ InBoth(Subject)
    /\ existing[Subject].status = "stale" /\ existing[Subject].score = "7"
    /\ existing[Subject].msgstr = <<89>>
    /\ _check_glossary_score(Subject, Current[Subject].msgstr, glossary) = "10"
    /\ Out(Subject).status = "review" /\ Out(Subject).score = "7"

\* C2: the result of a merge has one row per key, its keys are the existing
\* keys and the non-empty msgids of the source, and no merge run removes a
\* key from the ledger
C2_KeySet ==
    /\ [](Done =>
            /\ Keys(master) =
                   DOMAIN existing \cup
                   ({po_entries[i].msgid : i \in 1..Len(po_entries)} \ {EmptyStr})
            /\ Len(master) = Cardinality(Keys(master)))
    /\ [][Keys(master) \subseteq Keys(master')]_vars

\* C2 witness: after two runs the ledger holds a key the first run added and
\* a key neither run's source contained, and the last source had a header
\* entry and the same msgid twice
C2_Witness ==
    /\ runs = 2
    /\ Other \notin DOMAIN origin /\ Other \in DOMAIN existing
    /\ Subject \in missed /\ Subject \notin reappeared
    /\ Keys(master) = {Subject, Other}
    /\ Len(po_entries) = 3 /\ po_entries[1].msgid = EmptyStr
    /\ po_entries[2].msgid = po_entries[3].msgid

\* C4 as claimed: a row that was accepted with translation T has translation
\* T after every later merge run, whatever the sources contained
C4_AcceptedTranslationKeptAlways ==
    \A m \in DOMAIN origin :
        origin[m].status = "accepted" =>
            m \in Keys(master) /\ Out(m).msgstr = origin[m].msgstr

\* C4 amended: a row that was accepted with translation T has translation T
\* after every later merge run until a run finds it stale and its msgid in
\* the source again
C4_AcceptedTranslationKept ==
    \A m \in DOMAIN origin :
        origin[m].status = "accepted" /\ m \notin reappeared =>
            m \in Keys(master) /\ Out(m).msgstr = origin[m].msgstr

\* C4 witness: an accepted 'Y' whose msgid was in the first source with 'x'
\* and in no entry of the second: two runs later it is stale with 'Y'
C4_Witness ==
    /\ runs = 2
    /\ Subject \in DOMAIN origin /\ origin[Subject].status = "accepted"
    /\ origin[Subject].msgstr = <<89>>
    /\ existing[Subject].status = "conflict"
    /\ Subject \in missed /\ Subject \notin reappeared
    /\ Out(Subject).status = "stale" /\ Out(Subject).msgstr = <<89>>

\* C6: a rejected row whose msgid is in the source keeps status, translation
\* and score whatever the source translation is, and so stays as it was over
\* every sequence of runs whose sources all contain its msgid
C6_RejectedRule ==
    /\ \A m \in MsgIds :
           InBoth(m) /\ existing[m].status = "rejected" =>
               /\ Out(m).status = "rejected"
               /\ Out(m).msgstr = existing[m].msgstr
               /\ Out(m).score = existing[m].score
    /\ \A m \in DOMAIN origin :
           origin[m].status = "rejected" /\ m \notin missed =>
               /\ m \in Keys(master)
               /\ Out(m).status = "rejected"
               /\ Out(m).msgstr = origin[m].msgstr
               /\ Out(m).score = origin[m].score

\* C6 witness: a rejected 'Y' with score "7" after two runs whose sources
\* both had its msgid with 'x'
C6_Witness ==
    /\ runs = 2
    /\ Subject \in DOMAIN origin /\ origin[Subject].status = "rejected"
    /\ origin[Subject].msgstr = <<89>> /\ origin[Subject].score = "7"
    /\ Subject \notin missed
    /\ Current[Subject].msgstr = <<120>>
    /\ Out(Subject).status = "rejected" /\ Out(Subject).msgstr = <<89>>

\* C11: a row whose msgid is not in the deduplicated source comes out with
\* status stale, whatever its status was, and with its translation, score,
\* context, context_sources, candidate and extra columns as they were; the
\* context is not computed again, with rules or without
C11_ExistingOnlyPath ==
    \A m \in MsgIds :
        Done /\ m \in DOMAIN existing /\ m \notin DOMAIN Current =>
            /\ m \in Keys(master)
            /\ Out(m).status = "stale"
            /\ Out(m).msgstr = existing[m].msgstr
            /\ Out(m).score = existing[m].score
            /\ Out(m).context = existing[m].context
            /\ Out(m).context_sources = existing[m].context_sources
            /\ Out(m).candidate = existing[m].candidate
            /\ Out(m).extra_columns = existing[m].extra_columns

\* C11 witness: an annotated accepted row with context 'V' whose msgid is in
\* no entry of a source that is not empty, rules supplied: stale, 'V' kept
C11_Witness ==
    /\ Done
    /\ Subject \in DOMAIN existing /\ Subject \notin DOMAIN Current
    /\ Other \in DOMAIN Current
    /\ context_rules # <<>>
    /\ existing[Subject].status = "accepted"
    /\ existing[Subject].context = <<86>>
    /\ existing[Subject].candidate = <<99>>
    /\ Out(Subject).status = "stale" /\ Out(Subject).context = <<86>>

\* C12: a review or machine row whose msgid is in the source keeps its
\* status, takes the source translation (the empty one too) and keeps its
\* score: it is not scored again when the translation changes
C12_ReviewMachineRule ==
    \A m \in MsgIds :
        InBoth(m) /\ existing[m].status \in {"review", "machine"} =>
            /\ Out(m).status = existing[m].status
            /\ Out(m).msgstr = Current[m].msgstr
            /\ Out(m).score = existing[m].score

\* C12 witness: an unscored machine row 'Y', the source brings the
\* translation the glossary would score "10": machine, 'x', unscored
C12_Witness ==
    /\ InBoth(Subject)
    /\ existing[Subject].status = "machine"
    /\ existing[Subject].msgstr = <<89>> /\ existing[Subject].score = ""
    /\ Current[Subject].msgstr = <<120>>
    /\ _check_glossary_score(Subject, Current[Subject].msgstr, glossary) = "10"
    /\ Out(Subject).status = "machine" /\ Out(Subject).msgstr = <<120>>
    /\ Out(Subject).score = ""

\* C13: a msgid of the deduplicated source that the ledger does not have gets
\* a row with the source translation, status review and the scorer's score
\* if that translation is not empty, status empty and no score if it is, the
\* context computed from the source references, no candidate and no extra
\* columns
C13_NewKeyPath ==
    \A m \in MsgIds :
        Done /\ m \in DOMAIN Current /\ m \notin DOMAIN existing =>
            /\ m \in Keys(master)
            /\ Out(m).msgstr = Current[m].msgstr
            /\ Out(m).status = IF Truthy(Current[m].msgstr) THEN "review" ELSE "empty"
            /\ Out(m).score = IF Truthy(Current[m].msgstr)
                              THEN _check_glossary_score(m, Current[m].msgstr, glossary)
                              ELSE ""
            /\ <<Out(m).context, Out(m).context_sources>> =
                   _compute_context(Current[m], context_rules)
            /\ Out(m).candidate = EmptyStr
            /\ Out(m).extra_columns = <<>>

\* C13 witness: a ledger with another row, the subject msgid is new and has
\* the glossary's translation at 'u:1': review, "10", context 'U'
C13_Witness ==
    /\ Done
    /\ Other \in DOMAIN existing /\ Subject \notin DOMAIN existing
    /\ Subject \in DOMAIN Current /\ Subject \in Keys(master)
    /\ Out(Subject).status = "review" /\ Out(Subject).score = "10"
    /\ Out(Subject).context = <<85>>

\* C14: for a msgid in the ledger and in the source the context and
\* context_sources of the result are what match_context gives for the
\* deduplicated source references under the rules, both empty without
\* rules, for every status and whatever context the row had
C14_ContextRefresh ==
    \A m \in MsgIds :
        InBoth(m) =>
            <<Out(m).context, Out(m).context_sources>> =
                IF context_rules = <<>> THEN <<EmptyStr, EmptyStr>>
                ELSE match_context(Current[m].references, context_rules)

\* C14 witness: an accepted row with context 'V' whose msgid the source has
\* at 'u:1' only: context 'U'
C14_Witness ==
    /\ InBoth(Subject)
    /\ existing[Subject].status = "accepted"
    /\ existing[Subject].context = <<86>>
    /\ context_rules # <<>>
    /\ Current[Subject].references = <<117, 58, 49>>
    /\ Out(Subject).context = <<85>> /\ Out(Subject).context_sources = EmptyStr

\* C15: every row of the ledger comes out of a merge run with the candidate
\* and the extra columns it had, for every status, with its msgid in the
\* source or not; so after every sequence of runs they are the ones the
\* ledger had before the first
C15_CandidateExtrasUntouched ==
    /\ \A m \in DOMAIN existing :
           Done =>
               /\ m \in Keys(master)
               /\ Out(m).candidate = existing[m].candidate
               /\ Out(m).extra_columns = existing[m].extra_columns
    /\ \A m \in DOMAIN origin :
           /\ m \in Keys(master)
           /\ Out(m).candidate = origin[m].candidate
           /\ Out(m).extra_columns = origin[m].extra_columns

\* C15 witness: an annotated row whose msgid the first source did not have
\* and the second had again: after both runs candidate 'c' and column "note"
\* are as they were
C15_Witness ==
    /\ runs = 2
    /\ Subject \in DOMAIN origin
    /\ origin[Subject].candidate = <<99>>
    /\ origin[Subject].extra_columns = <<[name |-> "note", value |-> <<110>>]>>
    /\ Subject \in missed /\ Subject \in reappeared
    /\ Out(Subject).status = "review"
    /\ Out(Subject).candidate = <<99>>
    /\ Out(Subject).extra_columns = <<[name |-> "note", value |-> <<110>>]>>

\* C16: in the result of a merge a row is stale if and only if its msgid is
\* not in the deduplicated source; no row whose msgid is in the source is
\* left or made stale
C16_StaleIffAbsent ==
    Done =>
        \A i \in 1..Len(master) :
            master[i].status = "stale" <=> master[i].msgid \notin DOMAIN Current

\* C16 witness: a stale row whose msgid is in the source again, beside a
\* review row whose msgid is not: the first is review, the second stale
C16_Witness ==
    /\ InBoth(Subject) /\ existing[Subject].status = "stale"
    /\ Out(Subject).status = "review"
    /\ Other \in DOMAIN existing /\ existing[Other].status = "review"
    /\ Other \notin DOMAIN Current
    /\ Other \in Keys(master) /\ Out(Other).status = "stale"

\* C17: the list merge_master or create_master returns is in ascending order
\* of msgid, whatever order the msgids were processed in
C17_SortedOutput ==
    Done =>
        \A i \in 1..Len(master) : \A j \in (i + 1)..Len(master) :
            ~StrLess(master[j].msgid, master[i].msgid)

\* C17 witness: no ledger, the source has 'a' before 'B', so that the rows
\* were appended in that order: the result has 'B' before 'a'
C17_Witness ==
    /\ Done
    /\ existing = <<>>
    /\ Len(po_entries) = 2
    /\ po_entries[1].msgid = Other /\ po_entries[2].msgid = Subject
    /\ Len(master) = 2
    /\ master[1].msgid = Subject /\ master[2].msgid = Other

\* the entries of the source with msgid m, in input order
Group(m) == Select(po_entries, {i \in 1..Len(po_entries) : po_entries[i].msgid = m})

\* the non-empty translations of a list of entries, as a set
Voted(group) == {group[i].msgstr : i \in 1..Len(group)} \ {EmptyStr}

\* how many entries of a list have translation v
Votes(group, v) == Cardinality({i \in 1..Len(group) : group[i].msgstr = v})

\* C18: if a non-empty translation V occurs in the entries of a msgid more
\* often than every other non-empty translation, the deduplicated
\* translation is V, however many entries have an empty translation; if all
\* their translations are empty, it is empty
C18_MajorityVote ==
    Done =>
        \A m \in DOMAIN deduplicated :
            /\ \A V \in Voted(Group(m)) :
                   (\A W \in Voted(Group(m)) \ {V} :
                        Votes(Group(m), V) > Votes(Group(m), W))
                   => deduplicated[m].msgstr = V
            /\ Voted(Group(m)) = {} => deduplicated[m].msgstr = EmptyStr

\* C18 witness: the subject msgid with 'x', then 'Y', then 'Y': 'Y'
C18_Witness ==
    /\ Done
    /\ Len(po_entries) = 3
    /\ \A i \in 1..3 : po_entries[i].msgid = Subject
    /\ po_entries[1].msgstr = <<120>>
    /\ po_entries[2].msgstr = <<89>> /\ po_entries[3].msgstr = <<89>>
    /\ deduplicated[Subject].msgstr = <<89>>

\* the place in the source of the first entry with msgid m and translation v
FirstAt(m, v) ==
    CHOOSE i \in 1..Len(po_entries) :
        /\ po_entries[i].msgid = m /\ po_entries[i].msgstr = v
        /\ \A j \in 1..(i - 1) : ~(po_entries[j].msgid = m /\ po_entries[j].msgstr = v)

\* the non-empty translations of msgid m with the greatest count
Tied(m) ==
    {V \in Voted(Group(m)) :
        \A W \in Voted(Group(m)) : Votes(Group(m), W) <= Votes(Group(m), V)}

\* C19: when several non-empty translations of a msgid have the greatest
\* count, the deduplicated translation is the one of them that occurs first
\* in the input
C19_TieBreakFirstSeen ==
    Done =>
        \A m \in DOMAIN deduplicated :
            Cardinality(Tied(m)) > 1 =>
                /\ deduplicated[m].msgstr \in Tied(m)
                /\ \A W \in Tied(m) \ {deduplicated[m].msgstr} :
                       FirstAt(m, deduplicated[m].msgstr) < FirstAt(m, W)

\* C19 witness: the subject msgid with '', then 'x', then 'Y': 'x', which
\* is neither the last nor the smaller of the two
C19_Witness ==
    /\ Done
    /\ Len(po_entries) = 3
    /\ \A i \in 1..3 : po_entries[i].msgid = Subject
    /\ po_entries[1].msgstr = EmptyStr
    /\ po_entries[2].msgstr = <<120>> /\ po_entries[3].msgstr = <<89>>
    /\ Tied(Subject) = {<<120>>, <<89>>}
    /\ deduplicated[Subject].msgstr = <<120>>

\* the list q with the elements at i and i + 1 exchanged
Swap(q, i) ==
    [k \in 1..Len(q) |-> IF k = i THEN q[i + 1] ELSE IF k = i + 1 THEN q[i] ELSE q[k]]

\* C20: the deduplicated references of a msgid are the whitespace-separated
\* references of all its entries, each once, in ascending order, joined by
\* single spaces; exchanging two neighbouring entries of the input, and so
\* every reordering of it, leaves them as they are
C20_ReferenceAggregation ==
    Done =>
        \A m \in DOMAIN deduplicated :
            LET refs == Split(deduplicated[m].references)
            IN  /\ Range(refs) =
                       UNION {Range(Split(Group(m)[i].references)) :
                                  i \in 1..Len(Group(m))}
                /\ \A i \in 1..Len(refs) : \A j \in (i + 1)..Len(refs) :
                       StrLess(refs[i], refs[j])
                /\ deduplicated[m].references = Join(<<32>>, refs)
                /\ \A i \in 1..(Len(po_entries) - 1) :
                       deduplicate_entries(Swap(po_entries, i))[m].references =
                           deduplicated[m].references

\* C20 witness: the subject msgid at 'v:2  u:1', at 'u:1' and at 'U:3':
\* 'U:3 u:1 v:2'
C20_Witness ==
    /\ Done
    /\ Len(po_entries) = 3
    /\ \A i \in 1..3 : po_entries[i].msgid = Subject
    /\ po_entries[1].references = <<118, 58, 50, 32, 32, 117, 58, 49>>
    /\ po_entries[2].references = <<117, 58, 49>>
    /\ po_entries[3].references = <<85, 58, 51>>
    /\ deduplicated[Subject].references =
           <<85, 58, 51, 32, 117, 58, 49, 32, 118, 58, 50>>

---------------------------------------------------------------------------
(* Ledger files                                                            *)

\* the table a text holds: the records a csv reader gives for the text as it
\* is in the file, the header first
Table(text) == csv_reader(text)

\* the place of a column in a header
ColumnOf(header, name) == CHOOSE k \in 1..Len(header) : header[k] = name

\* the core fields of a row, in the order of POLYGLOTT_COLUMNS
CoreFields(entry) ==
    <<entry.msgid, entry.msgstr, entry.status, entry.score, entry.context,
      entry.context_sources, entry.candidate>>

\* C21: a ledger file that is loaded and saved again holds the rows it held,
\* and every row has in every column of the file, core or extra, the value
\* it had, wherever the column is now
C21_RoundTrip ==
    (pc = "resaved" /\ old_file.exists) =>
        LET old == Table(old_file.text)
            new == Table(file.text)
        IN  /\ Len(new) = Len(old)
            /\ \A i \in 2..Len(old) : \A k \in 1..Len(old[1]) :
                   /\ old[1][k] \in Range(new[1])
                   /\ new[i][ColumnOf(new[1], old[1][k])] = old[i][k]

\* C22: a loaded row has the columns of the file that are not reserved as
\* its extra columns, each under its name with the value the file has for
\* it, and the empty string in every reserved column the file does not have
C22_LoadColumns ==
    (pc = "loaded" /\ old_file.exists /\ ~loaded.error) =>
        LET records == Table(file.text)
            header == records[1]
            extra == Select(header, {k \in 1..Len(header) :
                                         header[k] \notin Range(POLYGLOTT_COLUMNS)})
        IN  /\ Len(loaded.entries) = Len(records) - 1
            /\ \A i \in 1..Len(loaded.entries) :
                   LET entry == loaded.entries[i]
                   IN  /\ [j \in 1..Len(entry.extra_columns) |->
                              entry.extra_columns[j].name] = extra
                       /\ \A k \in 1..Len(header) :
                              header[k] \notin Range(POLYGLOTT_COLUMNS) =>
                                  Get(entry.extra_columns, header[k]) = records[i + 1][k]
                       /\ \A c \in 1..Len(POLYGLOTT_COLUMNS) :
                              POLYGLOTT_COLUMNS[c] \notin Range(header) =>
                                  CoreFields(entry)[c] = EmptyStr

\* the first place (row, then key within the row) at which a list of rows
\* has an extra column of a name
FirstAppearance(entries, name) ==
    LET places == UNION {{<<e, i>> : i \in {j \in 1..Len(entries[e].extra_columns) :
                                                entries[e].extra_columns[j].name = name}} :
                         e \in 1..Len(entries)}
    IN  CHOOSE p \in places :
            \A q \in places : p[1] < q[1] \/ (p[1] = q[1] /\ p[2] <= q[2])

\* C23: the file save_master writes has as header the seven reserved
\* columns in their fixed order and then every extra column name of the
\* rows once, in the order of first appearance, and one record per row with
\* the row's values, the empty string where the row lacks the column
C23_SaveLayout ==
    pc = "saved" =>
        LET records == Table(file.text)
            header == records[1]
            users == SubSeq(header, 8, Len(header))
            Before(p, q) == p[1] < q[1] \/ (p[1] = q[1] /\ p[2] < q[2])
        IN  /\ SubSeq(header, 1, 7) =
                   <<<<109, 115, 103, 105, 100>>,
                     <<109, 115, 103, 115, 116, 114>>,
                     <<115, 116, 97, 116, 117, 115>>,
                     <<115, 99, 111, 114, 101>>,
                     <<99, 111, 110, 116, 101, 120, 116>>,
                     <<99, 111, 110, 116, 101, 120, 116, 95, 115, 111, 117, 114,
                       99, 101, 115>>,
                     <<99, 97, 110, 100, 105, 100, 97, 116, 101>>>>
            /\ Range(users) =
                   UNION {{master[e].extra_columns[i].name :
                               i \in 1..Len(master[e].extra_columns)} :
                          e \in 1..Len(master)}
            /\ \A a \in 1..Len(users) : \A b \in (a + 1)..Len(users) :
                   Before(FirstAppearance(master, users[a]),
                          FirstAppearance(master, users[b]))
            /\ Len(records) = Len(master) + 1
            /\ \A e \in 1..Len(master) :
                   /\ SubSeq(records[e + 1], 1, 7) = CoreFields(master[e])
                   /\ \A k \in 1..Len(users) :
                          records[e + 1][7 + k] =
                              IF \E i \in 1..Len(master[e].extra_columns) :
                                     master[e].extra_columns[i].name = users[k]
                              THEN Get(master[e].extra_columns, users[k])
                              ELSE EmptyStr

\* C23 witness: a row with 'note' and then a row with 'q"' and 'note': the
\* columns are 'note', 'q"', and the first row has '' under 'q"'
C23_Witness ==
    /\ pc = "saved"
    /\ Len(master) = 2
    /\ Len(master[1].extra_columns) = 1
    /\ master[1].extra_columns[1].name = Note
    /\ Len(master[2].extra_columns) = 2
    /\ master[2].extra_columns[1].name = QName
    /\ SubSeq(Table(file.text)[1], 8, 9) = <<Note, QName>>
    /\ Table(file.text)[2][9] = EmptyStr
    /\ Table(file.text)[3][9] = <<120, Quote, Comma, LF, 121>>

\* C24: loading a path at which there is nothing gives no entries and no
\* error; loading a file whose header has no msgid column, or that has no
\* header, gives the error and no entries
C24_LoadOutcomes ==
    pc = "loaded" =>
        /\ ~old_file.exists => loaded = [error |-> FALSE, entries |-> <<>>]
        /\ (/\ old_file.exists
            /\ \/ Table(file.text) = <<>>
               \/ POLYGLOTT_COLUMNS[1] \notin Range(Table(file.text)[1]))
              => (loaded.error /\ loaded.entries = <<>>)
        /\ (/\ old_file.exists
            /\ Table(file.text) # <<>>
            /\ POLYGLOTT_COLUMNS[1] \in Range(Table(file.text)[1]))
              => ~loaded.error

\* C24 witness: a file with the columns 'msgstr' and 'note' and two rows
C24_Witness ==
    /\ pc = "loaded"
    /\ file.exists
    /\ Len(Table(file.text)) = 3
    /\ Table(file.text)[1] = <<POLYGLOTT_COLUMNS[2], Note>>
    /\ loaded.error
    /\ master = <<>>

\* C24 witness, the other case: nothing at the path
C24_WitnessMissing == pc = "loaded" /\ ~file.exists /\ ~loaded.error

---------------------------------------------------------------------------
(* The import command                                                      *)

\* C25: as long as save_master is not called the ledger path holds what it
\* held; a failure of a step before it ends the command with exit code 1
\* and save_master not called; and when save_master is called the ledger
\* was loaded and the result is the finished merge of it with the parsed
\* entries (the created ledger when there was none)
C25_AbortBeforeWrite ==
    /\ pc \in BeforeSave \cup {"aborted"} => file = old_file
    /\ pc = "aborted" => exit_code = 1
    /\ pc \in {"save", "writing", "save_failed", "returned"} =>
           /\ ~loaded.error
           /\ old_file.exists =>
                  /\ loaded = load_master(old_file)
                  /\ existing = AsLedger([i \in 1..Len(loaded.entries) |->
                                             Read(loaded.entries[i])])
                  /\ \E order \in Orders(all_msgids(existing, po_entries)) :
                         master = merge_master(existing, po_entries, glossary,
                                               context_rules, order)
           /\ ~old_file.exists =>
                  master = create_master(po_entries, glossary, context_rules)

\* C25 witness: the merge fails after a ledger with rows was loaded and PO
\* entries were parsed
C25_Witness ==
    /\ pc = "aborted"
    /\ exit_code = 1
    /\ existing # <<>>
    /\ po_entries # <<>>
    /\ file.exists
    /\ file = old_file

\* C25 witness, the other case: the ledger file has no msgid column
C25_WitnessNoLedger ==
    /\ pc = "aborted"
    /\ exit_code = 1
    /\ loaded.error
    /\ file = old_file

\* C26: when save_master has failed, the ledger path holds the complete
\* previous ledger or the complete new one
C26_AtomicWrite ==
    pc = "save_failed" =>
        \/ file = old_file
        \/ file = [exists |-> TRUE, text |-> SavedText(master)]

---------------------------------------------------------------------------
(* The context resolver                                                    *)

\* the file paths of a reference string: of every reference that has a
\* colon what is before its last colon, in the order of the references
PathsOf(references) ==
    LET refs == Split(references)
        located == Select(refs, {i \in 1..Len(refs) : 58 \in Range(refs[i])})
    IN  [i \in 1..Len(located) |->
            SubSeq(located[i], 1,
                   (CHOOSE c \in 1..Len(located[i]) :
                        /\ located[i][c] = 58
                        /\ 58 \notin Range(SubSeq(located[i], c + 1, Len(located[i])))) - 1)]

\* the label a path gets: that of the first rule whose pattern is in the
\* path, the empty label if there is none
LabelOf(path, rules) ==
    LET matching == {i \in 1..Len(rules) :
                        \E at \in 0..Len(path) :
                            /\ at + Len(rules[i].pattern) <= Len(path)
                            /\ \A k \in 1..Len(rules[i].pattern) :
                                   path[at + k] = rules[i].pattern[k]}
    IN  IF matching = {} THEN EmptyStr
        ELSE rules[CHOOSE i \in matching : \A j \in matching : i <= j].context

\* the paths with a label, one for every reference that matches, in the
\* order of the references
MatchedPaths ==
    LET paths == PathsOf(po_entries[1].references)
    IN  Select(paths, {i \in 1..Len(paths) : LabelOf(paths[i], context_rules) # EmptyStr})

\* the labels of the references that match
MatchedLabels == {LabelOf(MatchedPaths[i], context_rules) : i \in 1..Len(MatchedPaths)}

\* the number of references that match with a label
Occurrences(label) ==
    Cardinality({i \in 1..Len(MatchedPaths) :
                     LabelOf(MatchedPaths[i], context_rules) = label})

\* C27: when every reference that matches a rule gets the same label, the
\* context is that label and context_sources is empty
C27_ContextUnanimity ==
    (pc = "resolved" /\ Cardinality(MatchedLabels) = 1) =>
        /\ resolved[1] \in MatchedLabels
        /\ resolved[2] = EmptyStr

\* C27 witness: 'u:1 x:u:1 U:3' under the rules for 'u' and 'v': two paths
\* with the label 'U', one reference without a label
C27_Witness ==
    /\ pc = "resolved"
    /\ po_entries[1].references =
           <<117, 58, 49, 32, 120, 58, 117, 58, 49, 32, 85, 58, 51>>
    /\ Len(context_rules) = 2
    /\ MatchedPaths = <<<<117>>, <<120, 58, 117>>>>
    /\ resolved = <<<<85>>, EmptyStr>>

\* C28: when the references that match get more than one label, the
\* context is the label with the most references if there is one such
\* label and 'ambiguous' if there are several, and context_sources is
\* path=label for every path that matches, once, in the order in which the
\* paths first occur, with ';' between them
C28_MajorityOrAmbiguous ==
    (pc = "resolved" /\ Cardinality(MatchedLabels) > 1) =>
        LET most == {l \in MatchedLabels :
                        \A o \in MatchedLabels : Occurrences(o) <= Occurrences(l)}
            first == {i \in 1..Len(MatchedPaths) :
                         \A j \in 1..(i - 1) : MatchedPaths[j] # MatchedPaths[i]}
            paths == Select(MatchedPaths, first)
        IN  /\ Cardinality(most) = 1 => resolved[1] \in most
            /\ Cardinality(most) > 1 =>
                   resolved[1] = <<97, 109, 98, 105, 103, 117, 111, 117, 115>>
            /\ resolved[2] =
                   Join(<<59>>, [i \in 1..Len(paths) |->
                       paths[i] \o <<61>> \o LabelOf(paths[i], context_rules)])

\* C28 witness: 'v:2 u:1 u:2' under the rules for 'u' and 'v': 'U' has two
\* of the three references, and the path 'u' is listed once, after 'v'
C28_Witness ==
    /\ pc = "resolved"
    /\ po_entries[1].references = <<118, 58, 50, 32, 117, 58, 49, 32, 117, 58, 50>>
    /\ resolved = <<<<85>>, <<118, 61, 86, 59, 117, 61, 85>>>>

\* C28 witness, the tie: 'u:1 v:2'
C28_WitnessTie ==
    /\ pc = "resolved"
    /\ po_entries[1].references = <<117, 58, 49, 32, 118, 58, 50>>
    /\ resolved = <<<<97, 109, 98, 105, 103, 117, 111, 117, 115>>,
                    <<117, 61, 85, 59, 118, 61, 86>>>>

\* C29: a path gets the label of the first rule, in the order of the list,
\* whose pattern is in it, and none if there is no such rule; and when no
\* path gets a label, context and context_sources are empty
C29_FirstMatchingRule ==
    pc = "resolved" =>
        /\ \A i \in 1..Len(PathsOf(po_entries[1].references)) :
               _match_single_reference(PathsOf(po_entries[1].references)[i],
                                       context_rules) =
                   LabelOf(PathsOf(po_entries[1].references)[i], context_rules)
        /\ resolved[1] \in MatchedLabels \cup
               {EmptyStr, <<97, 109, 98, 105, 103, 117, 111, 117, 115>>}
        /\ MatchedPaths = <<>> => resolved = <<EmptyStr, EmptyStr>>

\* C29 witness: 'uv:1' under the rules 'v' before 'u': the path has both
\* patterns and gets 'V'
C29_Witness ==
    /\ pc = "resolved"
    /\ po_entries[1].references = <<117, 118, 58, 49>>
    /\ Len(context_rules) = 2
    /\ context_rules[1].pattern = <<118>>
    /\ context_rules[2].pattern = <<117>>
    /\ resolved = <<<<86>>, EmptyStr>>

\* C29 witness, no match: 'U:3 u' under the rules for 'u' and 'v'
C29_WitnessNoMatch ==
    /\ pc = "resolved"
    /\ po_entries[1].references = <<85, 58, 51, 32, 117>>
    /\ Len(context_rules) = 2
    /\ resolved = <<EmptyStr, EmptyStr>>

---------------------------------------------------------------------------
(* The scorer                                                              *)

\* a character with an upper case letter made the lower case one
Folded(c) == IF c >= 65 /\ c <= 90 THEN c + 32 ELSE c

\* two strings are equal when the case of their letters is ignored
EqualIgnoringCase(a, b) ==
    Len(a) = Len(b) /\ \A i \in 1..Len(a) : Folded(a[i]) = Folded(b[i])

C30_WitnessNoEntry ==
    /\ pc = "scored"
    /\ po_entries[1].msgid = <<66>>
    /\ po_entries[1].msgstr = <<88>>
    /\ glossary.present
    /\ DOMAIN glossary.terms = {<<66>>}
    /\ scored = ""

---------------------------------------------------------------------------
(* The export to a PO file                                                 *)

\* the ledger rows that are to be written into the entry at place i of the
\* PO file an export read: the rows with the msgid of the entry, a status
\* of the export set and a translation that is not empty and not the one
\* the entry has
RowsFor(export, i) ==
    {r \in 1..Len(master) :
        /\ master[r].msgid = export.read[i].msgid
        /\ master[r].status \in statuses
        /\ master[r].msgstr # EmptyStr
        /\ master[r].msgstr # export.read[i].msgstr}

\* C31: an export changes the msgstr of a PO entry exactly when there is a
\* ledger row for it with a status of the export set and a translation that
\* is not empty and differs from the msgstr; the msgstr is then the ledger
\* translation, a write if the entry had none and an overwrite if it had
\* one; every other entry keeps msgstr and flags and is a skip
C31_ExportWriteCondition ==
    pc = "export" =>
        \A k \in 1..Len(exports) :
            LET export == exports[k]
                due == {i \in 1..Len(export.read) : RowsFor(export, i) # {}}
            IN  /\ Len(export.po) = Len(export.read)
                /\ \A i \in 1..Len(export.read) :
                       /\ (export.po[i].msgstr # export.read[i].msgstr) <=> i \in due
                       /\ i \in due =>
                              \A r \in RowsFor(export, i) :
                                  export.po[i].msgstr = master[r].msgstr
                       /\ i \notin due => export.po[i] = export.read[i]
                /\ export.writes =
                       Cardinality({i \in due : export.read[i].msgstr = EmptyStr})
                /\ export.overwrites =
                       Cardinality({i \in due : export.read[i].msgstr # EmptyStr})
                /\ export.skips = Len(export.read) - Cardinality(due)
                /\ k = Len(exports) =>
                       po_file = IF export.dry_run THEN export.read ELSE export.po

\* C31 witness: one export of the accepted 'x' into a file with the subject
\* msgid without translation and with 'Y': one write, one overwrite
C31_Witness ==
    /\ pc = "export"
    /\ Len(exports) = 1
    /\ statuses = {"accepted"}
    /\ Len(master) = 1 /\ master[1].status = "accepted"
    /\ Len(exports[1].read) = 2
    /\ exports[1].read[1].msgstr = EmptyStr
    /\ exports[1].read[2].msgstr = <<89>>
    /\ exports[1].writes = 1 /\ exports[1].overwrites = 1 /\ exports[1].skips = 0
    /\ ~exports[1].dry_run
    /\ po_file[1].msgstr = <<120>> /\ po_file[2].msgstr = <<120>>

\* C32: an entry an export has written has no fuzzy flag if the ledger
\* status is accepted, has it if the status is machine, and has the flags
\* it had if the status is review
C32_FuzzyFlag ==
    pc = "export" =>
        \A k \in 1..Len(exports) : \A i \in 1..Len(exports[k].read) :
            \A r \in RowsFor(exports[k], i) :
                /\ master[r].status = "accepted" =>
                       "fuzzy" \notin Range(exports[k].po[i].flags)
                /\ master[r].status = "machine" =>
                       "fuzzy" \in Range(exports[k].po[i].flags)
                /\ master[r].status = "review" =>
                       exports[k].po[i].flags = exports[k].read[i].flags

\* C32 witness: the machine 'x' written into an entry without flags, and
\* over the 'Y' of an entry with python-format and fuzzy
C32_Witness ==
    /\ pc = "export"
    /\ Len(exports) = 1
    /\ master[1].status = "machine"
    /\ Len(exports[1].read) = 2
    /\ exports[1].read[1].flags = <<>>
    /\ exports[1].po[1].flags = <<"fuzzy">>
    /\ exports[1].read[2].flags = <<"python-format", "fuzzy">>
    /\ exports[1].po[2].flags = <<"python-format", "fuzzy">>
    /\ exports[1].po[2].msgstr = <<120>>

\* C32 witness, accepted: the fuzzy flag is taken off, the other flag stays
C32_WitnessAccepted ==
    /\ pc = "export"
    /\ Len(exports) = 1
    /\ master[1].status = "accepted"
    /\ Len(exports[1].read) = 1
    /\ exports[1].read[1].flags = <<"python-format", "fuzzy">>
    /\ exports[1].po[1].flags = <<"python-format">>

\* C33: the export that follows an export that was no dry run, with the
\* same ledger and status set, writes and overwrites nothing, counts every
\* entry as a skip and leaves every msgstr and all flags as they are
C33_ExportIdempotent ==
    pc = "export" =>
        \A k \in 2..Len(exports) :
            ~exports[k - 1].dry_run =>
                /\ exports[k].read = exports[k - 1].po
                /\ exports[k].writes = 0
                /\ exports[k].overwrites = 0
                /\ exports[k].skips = Len(exports[k].read)
                /\ exports[k].po = exports[k].read
                /\ k = Len(exports) => po_file = exports[k].read

\* C33 witness: an export with a write and an overwrite, and a second one
\* with two skips
C33_Witness ==
    /\ pc = "export"
    /\ Len(exports) = 2
    /\ ~exports[1].dry_run /\ ~exports[2].dry_run
    /\ exports[1].writes = 1 /\ exports[1].overwrites = 1
    /\ exports[2].writes = 0 /\ exports[2].overwrites = 0 /\ exports[2].skips = 2

\* the row of the merged ledger for a msgid
RowOf(m) == master[CHOOSE r \in 1..Len(master) : master[r].msgid = m]

\* an export that was no dry run has been made with accepted in its status
\* set, and the PO file has been imported
ExportedAndImported ==
    /\ pc = "imported"
    /\ "accepted" \in statuses
    /\ \E k \in 1..Len(exports) : ~exports[k].dry_run

\* C39, as claimed: after the export and the import of the PO file, every
\* ledger row that was accepted with a translation is accepted with that
\* translation and its score
C39_AcceptedSurvivesAlways ==
    ExportedAndImported =>
        \A m \in DOMAIN existing :
            (existing[m].status = "accepted" /\ existing[m].msgstr # EmptyStr) =>
                /\ RowOf(m).status = "accepted"
                /\ RowOf(m).msgstr = existing[m].msgstr
                /\ RowOf(m).score = existing[m].score

\* C39, amended: after the export and the import of the PO file, a ledger
\* row that was accepted with a translation has that translation and its
\* score; it is accepted if the PO file has an entry with its msgid and
\* stale if it has none; it is never in conflict
C39_ExportThenImport ==
    ExportedAndImported =>
        \A m \in DOMAIN existing :
            (existing[m].status = "accepted" /\ existing[m].msgstr # EmptyStr) =>
                /\ RowOf(m).msgstr = existing[m].msgstr
                /\ RowOf(m).score = existing[m].score
                /\ RowOf(m).status =
                       IF \E i \in 1..Len(po_file) : po_file[i].msgid = m
                       THEN "accepted" ELSE "stale"

\* C39 witness: the PO file had the subject msgid with 'Y' and obsolete
\* with 'Y'; after the export both have the accepted 'x', and the import
\* with the glossary leaves the row accepted with 'x' and the score '7'
C39_Witness ==
    /\ ExportedAndImported
    /\ Len(exports[1].read) = 2
    /\ exports[1].read[1].msgid = Subject /\ exports[1].read[1].msgstr = <<89>>
    /\ exports[1].read[2].obsolete
    /\ ~exports[1].dry_run
    /\ glossary.present
    /\ existing[Subject].status = "accepted"
    /\ RowOf(Subject).status = "accepted"
    /\ RowOf(Subject).msgstr = <<120>>
    /\ RowOf(Subject).score = "7"

---------------------------------------------------------------------------
(* SpecOrder: merge_master on lists of entries that repeat a msgid, taken  *)
(* in every order                                                          *)

\* the entries handed to the merge: the subject msgid without translation
\* and with 'x' at 'u:1', with 'x' and with 'Y' at 'v:2', and the other
\* msgid
OrderEntries ==
    {POEntryData(Subject, t, <<117, 58, 49>>) : t \in {EmptyStr, <<120>>}}
    \cup {POEntryData(Subject, t, <<118, 58, 50>>) : t \in {<<120>>, <<89>>}}
    \cup {POEntryData(Other, <<120>>, <<117, 58, 49>>)}

OrderInputs == UNION {[1..n -> OrderEntries] : n \in 0..MaxGroup}

\* the ledgers: none, the subject msgid with the statuses whose row takes
\* something from the source (its translation, or the conflict with it),
\* and two rows
OrderLedgers ==
    {<<>>}
    \cup {(Subject :> MasterEntry(Subject, <<120>>, st, "7", Blank.context, EmptyStr,
                                  Blank.candidate, Blank.extra_columns)) :
              st \in {"empty", "review", "accepted", "stale"}}
    \cup {(Subject :> MasterEntry(Subject, <<89>>, "accepted", "", Annotated.context,
                                  EmptyStr, Annotated.candidate,
                                  Annotated.extra_columns))
          @@ (Other :> OtherRow)}

InitOrder ==
    /\ Idle
    /\ existing \in OrderLedgers
    /\ po_entries \in OrderInputs
    /\ deduplicated = <<>>
    /\ glossary \in Glossaries
    /\ context_rules \in RuleLists
    /\ master = <<>>
    /\ runs = 0
    /\ origin = existing
    /\ missed = {}
    /\ reappeared = {}

NextOrder == Merge

SpecOrder == InitOrder /\ [][NextOrder]_vars

---------------------------------------------------------------------------
(* What merge_master does to the statuses, and the first import            *)

\* C36: create_master returns the list merge_master returns for an empty
\* existing ledger, whatever order the set of msgids is walked in: the
\* ledger of a first import is the same whether it was made by
\* create_master (no ledger file) or by merge_master (a ledger file without
\* rows)
C36_BootstrapEquivalence ==
    (Done /\ existing = <<>>) =>
        /\ master = create_master(po_entries, glossary, context_rules)
        /\ \A order \in Orders(all_msgids(<<>>, po_entries)) :
               master = merge_master(<<>>, po_entries, glossary, context_rules, order)

\* an import into an empty ledger that leaves two rows, one of them scored
C36_Witness ==
    /\ Done
    /\ existing = <<>>
    /\ Len(master) = 2
    /\ \E i \in 1..Len(master) : master[i].status = "review" /\ master[i].score = "10"

\* an import into an empty ledger that leaves an empty row, from a source
\* that has the PO header in it
C36_WitnessEmpty ==
    /\ Done
    /\ existing = <<>>
    /\ \E i \in 1..Len(po_entries) : po_entries[i].msgid = EmptyStr
    /\ \E i \in 1..Len(master) : master[i].status = "empty"

\* C37: a row of the output is accepted, rejected or machine only if the
\* existing row with its msgid had that status; a row that is new or whose
\* status is not the one of the existing row is empty, review, conflict or
\* stale, and a row that became a conflict was accepted
C37_NoDecisionCreated ==
    Done =>
        \A i \in 1..Len(master) :
            LET row == master[i]
                had == IF row.msgid \in DOMAIN existing
                       THEN {existing[row.msgid].status} ELSE {}
            IN  /\ row.status \in {"accepted", "rejected", "machine"}
                       => row.status \in had
                /\ row.status \notin had
                       => row.status \in {"empty", "review", "conflict", "stale"}
                /\ (row.status = "conflict" /\ row.status \notin had)
                       => had = {"accepted"}

\* a merge that left an accepted row accepted beside a new row, and one
\* that made an accepted row a conflict
C37_Witness ==
    /\ Done
    /\ Subject \in DOMAIN existing
    /\ existing[Subject].status = "accepted"
    /\ Out(Subject).status = "accepted"
    /\ Other \notin DOMAIN existing
    /\ Other \in Keys(master)

C37_WitnessConflict ==
    /\ Done
    /\ Subject \in DOMAIN existing
    /\ existing[Subject].status = "accepted"
    /\ Out(Subject).status = "conflict"

\* C38: a row whose status is none of the seven and whose msgid is in the
\* source keeps its status, translation and score (and its msgid,
\* candidate and extra columns); its context is the one computed from the
\* references of the source
C38_UnknownStatusPassThrough ==
    \A m \in DOMAIN existing :
        (InBoth(m) /\ existing[m].status \notin Statuses) =>
            LET ctx == _compute_context(Current[m], context_rules)
            IN  /\ Out(m).status = existing[m].status
                /\ Out(m).msgstr = existing[m].msgstr
                /\ Out(m).score = existing[m].score
                /\ Out(m).candidate = existing[m].candidate
                /\ Out(m).extra_columns = existing[m].extra_columns
                /\ Out(m).context = ctx[1]
                /\ Out(m).context_sources = ctx[2]

\* a row without status, with a translation the source does not have and a
\* context the rules do not give, after a merge with its msgid in the
\* source
C38_Witness ==
    /\ InBoth(Subject)
    /\ existing[Subject].status = ""
    /\ existing[Subject].msgstr # Current[Subject].msgstr
    /\ Truthy(Current[Subject].msgstr)
    /\ existing[Subject].score = "7"
    /\ Out(Subject).context # existing[Subject].context

---------------------------------------------------------------------------
(* The order of the input                                                  *)

\* the lists with the elements of q in every order
Rearranged(q) == {[i \in 1..Len(q) |-> q[p[i]]] : p \in Orders(1..Len(q))}

\* no msgid of the input has two non-empty translations with the greatest
\* count
NoTie == \A m \in Keys(po_entries) : Cardinality(Tied(m)) <= 1

\* C35: if no msgid group of the input has a tie for the most frequent
\* non-empty translation, merge_master returns the same list, field by
\* field, for the input taken in any other order (and for any iteration
\* order of the msgid set)
C35_OrderIndependence ==
    (Done /\ NoTie) =>
        \A entries \in Rearranged(po_entries) :
            \A order \in Orders(all_msgids(existing, entries)) :
                merge_master(existing, entries, glossary, context_rules, order) = master

\* a review row merged with three entries for its msgid, 'Y' at 'v:2' first
\* and then 'x' twice at two places: the row gets 'x', which is not the
\* first translation, and the context of both places
C35_Witness ==
    /\ Done
    /\ NoTie
    /\ Len(po_entries) = 3
    /\ Subject \in DOMAIN existing
    /\ existing[Subject].status = "review"
    /\ \A i \in 1..3 : po_entries[i].msgid = Subject
    /\ po_entries[1].msgstr = <<89>>
    /\ po_entries[2].msgstr = <<120>> /\ po_entries[3].msgstr = <<120>>
    /\ po_entries[2].references # po_entries[3].references
    /\ context_rules # <<>>
    /\ Out(Subject).msgstr = <<120>>
    /\ Out(Subject).context = Ambiguous

\* a tie: 'x' then 'Y' for a review row, which gets 'x', and would get 'Y'
\* from the input in the other order
C35_WitnessTie ==
    /\ Done
    /\ ~NoTie
    /\ Subject \in DOMAIN existing
    /\ existing[Subject].status = "review"
    /\ \E entries \in Rearranged(po_entries) :
           \E order \in Orders(all_msgids(existing, entries)) :
               merge_master(existing, entries, glossary, context_rules, order) # master

---------------------------------------------------------------------------
(* The translate command                                                   *)

\* the row load_master gave at place i, as the merge engine gets it
Loaded(i) == Read(loaded.entries[i])

\* the rows the command had to translate and the backend gave a text for
Suggested ==
    {i \in 1..Len(master) :
        Loaded(i).status \in statuses /\ ~suggested[Loaded(i).msgid].error}

\* C34: after the translate command every row has the translation, status
\* and score it was loaded with (and its msgid, context and extra
\* columns), in memory and in the saved file, and a row the backend gave a
\* text for has that text as its candidate
C34_CandidateOnly ==
    pc = "translated" =>
        /\ load_master(file).entries =
               [i \in 1..Len(master) |-> Written(master[i])]
        /\ \A i \in 1..Len(master) :
               /\ master[i].msgstr = Loaded(i).msgstr
               /\ master[i].status = Loaded(i).status
               /\ master[i].score = Loaded(i).score
               /\ master[i].msgid = Loaded(i).msgid
               /\ master[i].context = Loaded(i).context
               /\ master[i].extra_columns = Loaded(i).extra_columns
               /\ i \in Suggested =>
                      master[i].candidate = suggested[Loaded(i).msgid].msgstr

============================================================================
